---- MODULE Spec2Model ----
(***************************************************************************)
(* Streaming tool-call orchestration loop of the chat route                *)
(* (src/app/api/chat/route.ts and its forced-finalization revision         *)
(* src/unnamed/part_003), with the tool registry of src/lib/tools/index.ts *)
(* and the text tool-call extractor.                                       *)
(*                                                                         *)
(* Text is a sequence of lexical tokens [t, v]:                            *)
(*   t = "w"  a run of word characters (\w+), pieces of one run adjacent   *)
(*   t = "s"  a double-quoted JSON string with value v                     *)
(*   t = "p"  one of the JSON punctuation characters { } , :               *)
(*   t = "x"  any other literal text (white space, markers, prose)         *)
(***************************************************************************)
EXTENDS Integers, Sequences, FiniteSets, TLC

\* -------------------------------------------------------------------------
\* Bounds of the model
\* -------------------------------------------------------------------------
\* chunks the model runtime delivers in one streamed response
MaxChunks == 2
\* rounds of one request in which the runtime or a tool leaves the default
\* script (one chunk carrying one native call, every tool succeeding)
MaxVaried == 1
\* text fragments concatenated into one input of parseTextToolCalls
MaxFragments == 3

\* -------------------------------------------------------------------------
\* Tokens and text
\* -------------------------------------------------------------------------
W(w) == [t |-> "w", v |-> w]
S(s) == [t |-> "s", v |-> s]
P(c) == [t |-> "p", v |-> c]
X(x) == [t |-> "x", v |-> x]

LBRACE == P("{")
RBRACE == P("}")
COMMA == P(",")
COLON == P(":")
SPACE == X(" ")
ARGS_TAG == X("[ARGS]")
TOOL_CALL_OPEN == X("<tool_call>")
TOOL_CALL_CLOSE == X("</tool_call>")

\* the elements of a sequence, its last element, and the concatenation of a
\* sequence of texts
Range(seq) == {seq[i] : i \in DOMAIN seq}

Last(seq) == seq[Len(seq)]

RECURSIVE Concat(_)
Concat(seqs) == IF seqs = <<>> THEN <<>> ELSE Head(seqs) \o Concat(Tail(seqs))

\* -------------------------------------------------------------------------
\* JSON values: a string, or an object given as a sequence of <<key, value>>
\* -------------------------------------------------------------------------
JStr(s) == [k |-> "str", s |-> s, o |-> <<>>]
JObj(members) == [k |-> "obj", s |-> "", o |-> members]
JUndefined == [k |-> "undef", s |-> "", o |-> <<>>]

\* JavaScript truthiness of a value (x || y takes y when x is falsy)
Truthy(val) == \/ val.k = "obj"
               \/ val.k = "str" /\ val.s # ""

Or(a, b) == IF Truthy(a) THEN a ELSE b

\* property read parsed[key]; a later duplicate key wins, as in JSON.parse
RECURSIVE GetFrom(_, _, _)
GetFrom(members, key, i) ==
  IF i = 0 THEN JUndefined
  ELSE IF members[i][1] = key THEN members[i][2]
  ELSE GetFrom(members, key, i - 1)

Get(val, key) ==
  IF val.k = "obj" THEN GetFrom(val.o, key, Len(val.o)) ELSE JUndefined

\* JSON.stringify of a value, as tokens
RECURSIVE JSONstringify(_)
RECURSIVE StringifyMembers(_, _)
StringifyMembers(members, i) ==
  IF i > Len(members) THEN <<>>
  ELSE (IF i > 1 THEN <<COMMA>> ELSE <<>>)
       \o <<S(members[i][1]), COLON>> \o JSONstringify(members[i][2])
       \o StringifyMembers(members, i + 1)

JSONstringify(val) ==
  IF val.k = "str" THEN <<S(val.s)>>
  ELSE IF val.k = "obj" THEN <<LBRACE>> \o StringifyMembers(val.o, 1) \o <<RBRACE>>
  ELSE <<>>

\* -------------------------------------------------------------------------
\* JSON.parse over tokens.  Word tokens stand for identifiers and prose, so
\* a word is never a JSON literal; white space between tokens is skipped.
\* -------------------------------------------------------------------------
IsWs(tok) == tok.t = "x" /\ tok.v \in {" ", "\n\n"}

RECURSIVE SkipWs(_, _)
SkipWs(toks, i) ==
  IF i <= Len(toks) /\ IsWs(toks[i]) THEN SkipWs(toks, i + 1) ELSE i

ParseFail == [ok |-> FALSE, val |-> JUndefined, pos |-> 0]

RECURSIVE ParseValue(_, _)
RECURSIVE ParseMembers(_, _, _, _)
ParseValue(toks, i0) ==
  LET i == SkipWs(toks, i0) IN
  IF i > Len(toks) THEN ParseFail
  ELSE IF toks[i].t = "s" THEN [ok |-> TRUE, val |-> JStr(toks[i].v), pos |-> i + 1]
  ELSE IF toks[i] = LBRACE THEN ParseMembers(toks, SkipWs(toks, i + 1), <<>>, TRUE)
  ELSE ParseFail

ParseMembers(toks, i, acc, first) ==
  IF i > Len(toks) THEN ParseFail
  ELSE IF first /\ toks[i] = RBRACE THEN [ok |-> TRUE, val |-> JObj(acc), pos |-> i + 1]
  ELSE IF toks[i].t # "s" THEN ParseFail
  ELSE
    LET c == SkipWs(toks, i + 1) IN
    IF c > Len(toks) \/ toks[c] # COLON THEN ParseFail
    ELSE
      LET r == ParseValue(toks, c + 1) IN
      IF ~r.ok THEN ParseFail
      ELSE
        LET j == SkipWs(toks, r.pos)
            acc2 == Append(acc, <<toks[i].v, r.val>>)
        IN IF j > Len(toks) THEN ParseFail
           ELSE IF toks[j] = COMMA THEN ParseMembers(toks, SkipWs(toks, j + 1), acc2, FALSE)
           ELSE IF toks[j] = RBRACE THEN [ok |-> TRUE, val |-> JObj(acc2), pos |-> j + 1]
           ELSE ParseFail

\* JSON.parse(text): ok = FALSE stands for the SyntaxError it throws
JSONparse(toks) ==
  LET r == ParseValue(toks, 1) IN
  IF r.ok /\ SkipWs(toks, r.pos) > Len(toks) THEN r ELSE ParseFail

\* -------------------------------------------------------------------------
\* Tool registry (src/lib/tools/index.ts)
\* -------------------------------------------------------------------------
\* keys of the toolHandlers map after the registerTool calls
toolHandlers ==
  {"calculator", "get_current_datetime", "fetch_url", "web_search", "execute_code",
   "read_file", "write_file", "get_weather", "generate_image"}

getRegisteredTools == toolHandlers

\* what a registered handler does with a call: it resolves to a ToolResult
\* ("ok", "fail"), or it throws an Error or a value that is no Error
HandlerBehaviours == {"ok", "fail", "throwError", "throwOther"}

\* ToolResult {success, result?, error?}; hasResult/hasError tell whether the
\* optional field is present
ResultOk(text) ==
  [success |-> TRUE, hasResult |-> TRUE, result |-> text, hasError |-> FALSE, error |-> <<>>]
ResultError(text) ==
  [success |-> FALSE, hasResult |-> FALSE, result |-> <<>>, hasError |-> TRUE, error |-> text]

HandlerResultText == <<X("42")>>
HandlerErrorText == <<X("No expression provided")>>
ThrownMessage == <<X("boom")>>

\* the value a handler resolves to when it does not throw
HandlerReturn(h) ==
  IF h = "ok" THEN ResultOk(HandlerResultText) ELSE ResultError(HandlerErrorText)

\* executeTool without its try/catch: a throwing handler rejects the promise
executeTool_noCatch(name, h) ==
  IF name \notin toolHandlers
  THEN [threw |-> FALSE, value |-> ResultError(<<X("Unknown tool: "), X(name)>>)]
  ELSE IF h \in {"ok", "fail"}
  THEN [threw |-> FALSE, value |-> HandlerReturn(h)]
  ELSE [threw |-> TRUE, value |-> ResultError(<<>>)]

\* executeTool turning a handler's success = false into an exception
executeTool_failureThrows(name, h) ==
  IF name \notin toolHandlers
  THEN [threw |-> FALSE, value |-> ResultError(<<X("Unknown tool: "), X(name)>>)]
  ELSE IF h = "ok"
  THEN [threw |-> FALSE, value |-> HandlerReturn(h)]
  ELSE [threw |-> TRUE, value |-> ResultError(HandlerErrorText)]

\* executeTool(name, args) with the handler behaving as h: threw = TRUE is a
\* rejected promise, value the ToolResult it resolves to otherwise
executeTool(name, h) ==
  IF name \notin toolHandlers
  THEN [threw |-> FALSE, value |-> ResultError(<<X("Unknown tool: "), X(name)>>)]
  ELSE IF h \in {"ok", "fail"}
  THEN [threw |-> FALSE, value |-> HandlerReturn(h)]
  ELSE [threw |-> FALSE,
        value |-> ResultError(IF h = "throwError" THEN ThrownMessage
                              ELSE <<X("Unknown error executing tool")>>)]

\* -------------------------------------------------------------------------
\* Text tool-call extractor (parseTextToolCalls)
\* -------------------------------------------------------------------------
\* smallest j >= from with toks[j] in the set, 0 when there is none
RECURSIVE FirstIdx(_, _, _)
FirstIdx(toks, from, set) ==
  IF from > Len(toks) THEN 0
  ELSE IF toks[from] \in set THEN from
  ELSE FirstIdx(toks, from + 1, set)

\* last index of the run of word tokens that contains index i
RECURSIVE RunEnd(_, _)
RunEnd(toks, i) ==
  IF i + 1 <= Len(toks) /\ toks[i + 1].t = "w" THEN RunEnd(toks, i + 1) ELSE i

\* the characters of the word tokens i..e
RECURSIVE RunText(_, _, _)
RunText(toks, i, e) ==
  IF i > e THEN "" ELSE toks[i].v \o RunText(toks, i + 1, e)

ToolCall(name, arguments) == [name |-> name, arguments |-> arguments]

\* a name test that accepts any string
IsRegisteredName_anyString(val) == val.k = "str"

IsRegisteredName(val) == val.k = "str" /\ val.s \in getRegisteredTools

\* /(\w+)\[ARGS\](\{[\s\S]*?\})/ can match starting at token i
Match1At(toks, i) ==
  /\ toks[i].t = "w"
  /\ LET e == RunEnd(toks, i) IN
       /\ e + 2 <= Len(toks)
       /\ toks[e + 1] = ARGS_TAG
       /\ toks[e + 2] = LBRACE
       /\ FirstIdx(toks, e + 3, {RBRACE}) # 0

RECURSIVE FirstMatch1(_, _)
FirstMatch1(toks, from) ==
  IF from > Len(toks) THEN 0
  ELSE IF Match1At(toks, from) THEN from
  ELSE FirstMatch1(toks, from + 1)

\* Pattern 1: tool_name[ARGS]{...}
RECURSIVE Pattern1(_, _, _)
Pattern1(toks, from, acc) ==
  LET i == FirstMatch1(toks, from) IN
  IF i = 0 THEN acc
  ELSE
    LET e == RunEnd(toks, i)
        j == FirstIdx(toks, e + 3, {RBRACE})
        toolName == RunText(toks, i, e)
        args == JSONparse(SubSeq(toks, e + 2, j))
    IN Pattern1(toks, j + 1,
                IF args.ok /\ toolName \in getRegisteredTools
                THEN Append(acc, ToolCall(toolName, args.val)) ELSE acc)

\* Pattern 2: <tool_call>{"name": "...", "arguments": {...}}</tool_call>
RECURSIVE Pattern2(_, _, _)
Pattern2(toks, from, acc) ==
  LET i == FirstIdx(toks, from, {TOOL_CALL_OPEN})
      j == IF i = 0 THEN 0 ELSE FirstIdx(toks, i + 1, {TOOL_CALL_CLOSE})
  IN
  IF j = 0 THEN acc
  ELSE
    LET parsed == JSONparse(SubSeq(toks, i + 1, j - 1))
        name == Get(parsed.val, "name")
    IN Pattern2(toks, j + 1,
                IF parsed.ok /\ Truthy(name) /\ IsRegisteredName(name)
                THEN Append(acc, ToolCall(name.s, Or(Get(parsed.val, "arguments"), JObj(<<>>))))
                ELSE acc)

\* Pattern 3: standalone JSON with a "tool" or "function" string in it
RECURSIVE Pattern3(_, _, _)
Pattern3(toks, from, acc) ==
  LET i == FirstIdx(toks, from, {LBRACE})
      k == IF i = 0 THEN 0 ELSE FirstIdx(toks, i + 1, {S("tool"), S("function")})
      j == IF k = 0 THEN 0 ELSE FirstIdx(toks, k + 1, {RBRACE})
  IN
  IF j = 0 THEN acc
  ELSE
    LET parsed == JSONparse(SubSeq(toks, i, j))
        toolName == Or(Or(Get(parsed.val, "tool"), Get(parsed.val, "function")),
                       Get(parsed.val, "name"))
        arguments == Or(Or(Or(Get(parsed.val, "arguments"), Get(parsed.val, "params")),
                           Get(parsed.val, "parameters")), JObj(<<>>))
    IN Pattern3(toks, j + 1,
                IF parsed.ok /\ Truthy(toolName) /\ IsRegisteredName(toolName)
                THEN Append(acc, ToolCall(toolName.s, arguments)) ELSE acc)

parseTextToolCalls(content) ==
  Pattern3(content, 1, Pattern2(content, 1, Pattern1(content, 1, <<>>)))

\* -------------------------------------------------------------------------
\* The chat route: constants and request-independent helpers
\* -------------------------------------------------------------------------
MAX_TOOL_ITERATIONS_route == 10
MAX_TOOL_ITERATIONS_final == 5

Message(role, content) == [role |-> role, content |-> content]

\* the two revisions carry different prompt texts
TOOL_SYSTEM_PROMPT(rev) ==
  IF rev = "final" THEN <<X("TOOL_SYSTEM_PROMPT: CRITICAL Tool Usage Rules")>>
  ELSE <<X("TOOL_SYSTEM_PROMPT: Tool Usage Guidelines")>>

FORCE_RESPONSE_MESSAGE == <<X("FORCE_RESPONSE_MESSAGE: Do NOT make any more tool calls")>>

\* the failure branch without its 'Error: ' prefix
ToolResultText_noPrefix(toolOutput) ==
  IF toolOutput.success
  THEN (IF toolOutput.hasResult THEN toolOutput.result ELSE <<>>)
  ELSE (IF toolOutput.hasError THEN toolOutput.error ELSE <<X("undefined")>>)

\* toolOutput.success ? toolOutput.result || '' : `Error: ${toolOutput.error}`
ToolResultText(toolOutput) ==
  IF toolOutput.success
  THEN (IF toolOutput.hasResult THEN toolOutput.result ELSE <<>>)
  ELSE <<X("Error: ")>> \o (IF toolOutput.hasError THEN toolOutput.error ELSE <<X("undefined")>>)

\* <!--TOOL_START:name:args-->result<!--TOOL_END-->\n\n
ToolMarker(toolCall, toolResult) ==
  <<X("<!--TOOL_START:"), X(toolCall.name), X(":")>> \o JSONstringify(toolCall.arguments)
  \o <<X("-->")>> \o toolResult \o <<X("<!--TOOL_END-->"), X("\n\n")>>

\* <think>...</think>\n\n
ThinkingMarker(thinking) == <<X("<think>")>> \o thinking \o <<X("</think>"), X("\n\n")>>

Separator == <<X("\n\n")>>

\* -------------------------------------------------------------------------
\* What the model runtime may stream: chunks {message: {content, thinking,
\* tool_calls}}
\* -------------------------------------------------------------------------
Chunk(content, thinking, hasToolCalls, tool_calls) ==
  [content |-> content, thinking |-> thinking,
   hasToolCalls |-> hasToolCalls, tool_calls |-> tool_calls]

CalcArgs == JObj(<< <<"expression", JStr("1+1")>> >>)
NativeCalc == ToolCall("calculator", CalcArgs)
NativeWeather == ToolCall("get_weather", JObj(<< <<"location", JStr("Paris")>> >>))
NativeUnknown == ToolCall("bogus", JObj(<<>>))

DefaultChunk == Chunk(<<>>, <<>>, TRUE, <<NativeCalc>>)

Chunks ==
  { DefaultChunk,
    Chunk(<<W("hi")>>, <<>>, FALSE, <<>>),
    Chunk(<<>>, <<W("hm")>>, FALSE, <<>>),
    Chunk(<<W("so")>>, <<W("aha")>>, FALSE, <<>>),
    Chunk(<<>>, <<>>, TRUE, <<NativeWeather, NativeCalc>>),
    Chunk(<<>>, <<>>, TRUE, <<NativeUnknown, NativeCalc>>),
    Chunk(<<>>, <<>>, TRUE, <<>>),
    Chunk(<<W("calculator"), ARGS_TAG, LBRACE, RBRACE>>, <<>>, FALSE, <<>>),
    Chunk(<<W("bogus"), ARGS_TAG, LBRACE, RBRACE>>, <<>>, FALSE, <<>>) }

\* message histories a caller may post
CallerMessages == { << Message("user", <<W("hello")>>) >> }

\* -------------------------------------------------------------------------
\* State of one request (POST and the start callback of its ReadableStream)
\* -------------------------------------------------------------------------
VARIABLES
  revision,         \* "route": src/app/api/chat/route.ts, "final": src/unnamed/part_003
  enableTools,      \* request field
  messages,         \* request field: the caller's message array
  workingMessages,  \* working transcript
  iterations,
  fullContent,
  fullThinking,     \* "final" revision only
  thinkingSent,     \* "final" revision only
  toolCalls,
  toolIdx,          \* position of the for...of loop over toolCalls
  pc,               \* "start", "awaitChat", "streaming", "awaitTool", "done"
  controller,       \* state of the output stream: "open", "closed", "errored"
  out,              \* the chunks enqueued on the output stream, in order
  nChunks,          \* chunks consumed from the current model stream
  modelCalls,       \* the ollama.chat calls issued so far
  trace,            \* log of calls and writes, in program order
  toolOutputs,      \* what each executeTool call so far settled to
  received,         \* the chunks consumed from the current model stream
  roundStart,       \* lengths of out and workingMessages when the stream opened
  segments,         \* what the message view has parsed out of the streamed text
  handlerArgs,      \* a tool handler or endpoint under study: its arguments and environment
  effects,          \* the outside calls it has made (file system, network, evaluation), in order
  handlerResult,    \* what it returned
  varied,           \* rounds so far that left the default script
  roundVaried,      \* the current round left the default script
  peer              \* a second request of the same process, suspended at an await

\* no second request in the process
NoPeer == <<>>

request == <<revision, enableTools, messages, peer>>

vars == <<revision, enableTools, messages, workingMessages, iterations, fullContent,
          fullThinking, thinkingSent, toolCalls, toolIdx, pc, controller, out, nChunks,
          modelCalls, trace, toolOutputs, received, roundStart, segments, handlerArgs,
          effects, handlerResult, varied, roundVaried, peer>>

\* one handler call followed on its own
handler == <<handlerArgs, effects, handlerResult>>

\* no handler call is being followed
NoHandler == handlerArgs = <<>> /\ effects = <<>> /\ handlerResult = <<>>

\* records of the current round kept for the properties
history == <<received, roundStart>>

MAX_TOOL_ITERATIONS ==
  IF revision = "final" THEN MAX_TOOL_ITERATIONS_final ELSE MAX_TOOL_ITERATIONS_route

\* the loop test written with <= : one round too many
LoopCondition_inclusive(it) == it <= MAX_TOOL_ITERATIONS

\* while (iterations < MAX_TOOL_ITERATIONS)
LoopCondition(it) == it < MAX_TOOL_ITERATIONS

\* const isLastIteration = iterations === MAX_TOOL_ITERATIONS (part_003 only)
isLastIteration(it) == revision = "final" /\ it = MAX_TOOL_ITERATIONS

\* the tools option without the last-iteration test
ToolsOption_ignoresLast(it) == enableTools

\* tools: enableTools [&& !isLastIteration] ? allTools : undefined
ToolsOption(it) == enableTools /\ ~isLastIteration(it)

\* a forced finalization that overwrites the newest message
RoundTranscript_replacesLast(wm, it) ==
  IF isLastIteration(it)
  THEN SubSeq(wm, 1, Len(wm) - 1) \o <<Message("user", FORCE_RESPONSE_MESSAGE)>>
  ELSE wm

\* the transcript the call of round it is issued with
RoundTranscript(wm, it) ==
  IF isLastIteration(it) THEN Append(wm, Message("user", FORCE_RESPONSE_MESSAGE)) ELSE wm

DetermineToolCalls_ignoresEnableTools(native, content) ==
  IF Len(native) = 0 THEN parseTextToolCalls(content) ELSE native

\* the tool calls of a round, from the native ones and the streamed content
DetermineToolCalls(native, content) ==
  IF Len(native) = 0 /\ enableTools THEN parseTextToolCalls(content) ELSE native

\* a catch block that ends the stream normally
ControllerAfterThrow_closes == "closed"

\* the catch block of the start callback: controller.error(error)
ControllerAfterThrow == "errored"

\* all calls of the round invoked together (Promise.all over toolCalls)
InvokedAfter_allAtOnce(k, n) == IF k = 0 THEN [i \in 1..n |-> i] ELSE <<>>

\* for...of with await: the calls whose executeTool is invoked once call k of
\* n has been dealt with (k = 0: on entering the for loop)
InvokedAfter(k, n) == IF k < n THEN <<k + 1>> ELSE <<>>

\* an assistant message that also records the separator sent to the client
AssistantMessage_withSeparator(content) == Message("assistant", content \o Separator)

\* workingMessages.push({ role: 'assistant', content: fullContent })
AssistantMessage(content) == Message("assistant", content)

\* a loop body that holds the text back
ChunkWrites_buffered(text, sendThinking, thinking) ==
  IF sendThinking THEN <<ThinkingMarker(thinking)>> ELSE <<>>

\* what the for await body enqueues for one chunk: the thinking block when
\* it is due, then the chunk's text
ChunkWrites(text, sendThinking, thinking) ==
  (IF sendThinking THEN <<ThinkingMarker(thinking)>> ELSE <<>>)
  \o (IF text # <<>> THEN <<text>> ELSE <<>>)

\* a loop that writes no separator
SeparatorWrites_never(n) == <<>>

\* a separator written before the test for zero tool calls
SeparatorWrites_always(n) == <<Separator>>

\* controller.enqueue('\n\n') after the test for zero tool calls (n calls)
SeparatorWrites(n) == IF n = 0 THEN <<>> ELSE <<Separator>>

Ev(ev, round, k) == [ev |-> ev, round |-> round, k |-> k]

\* invoking executeTool for the calls ks: a registered name runs its handler
RECURSIVE InvokeEvents(_, _, _, _)
InvokeEvents(calls, ks, round, i) ==
  IF i > Len(ks) THEN <<>>
  ELSE <<Ev("execute", round, ks[i])>>
       \o (IF calls[ks[i]].name \in toolHandlers THEN <<Ev("handler", round, ks[i])>> ELSE <<>>)
       \o InvokeEvents(calls, ks, round, i + 1)

Init ==
  /\ revision \in {"route", "final"}
  /\ enableTools \in BOOLEAN
  /\ messages \in CallerMessages
  /\ workingMessages = <<>>
  /\ iterations = 0
  /\ fullContent = <<>>
  /\ fullThinking = <<>>
  /\ thinkingSent = FALSE
  /\ toolCalls = <<>>
  /\ toolIdx = 0
  /\ pc = "start"
  /\ controller = "open"
  /\ out = <<>>
  /\ nChunks = 0
  /\ modelCalls = <<>>
  /\ trace = <<>>
  /\ toolOutputs = <<>>
  /\ received = <<>>
  /\ roundStart = [out |-> 0, wm |-> 0]
  /\ segments = <<>>
  /\ NoHandler
  /\ peer = NoPeer
  /\ varied = 0
  /\ roundVaried = FALSE

\* top of the while body up to the await of ollama.chat
BeginRound(wm, it, tr) ==
  /\ iterations' = it
  /\ workingMessages' = RoundTranscript(wm, it)
  /\ modelCalls' = Append(modelCalls,
                          [iteration |-> it, tools |-> ToolsOption(it),
                           messages |-> RoundTranscript(wm, it)])
  /\ trace' = Append(tr, Ev("chat", it, 0))
  /\ pc' = "awaitChat"
  /\ roundVaried' = FALSE

\* controller.close() after the loop
Close(tr) ==
  /\ controller' = "closed"
  /\ pc' = "done"
  /\ trace' = Append(tr, Ev("close", iterations, 0))

\* an exception reaches the catch block of the start callback
Throw ==
  /\ controller' = ControllerAfterThrow
  /\ pc' = "done"
  /\ trace' = Append(trace, Ev("error", iterations, 0))
  /\ UNCHANGED <<request, handler, segments, workingMessages, iterations, fullContent, fullThinking,
                 thinkingSent, toolCalls, toolIdx, out, nChunks, modelCalls, roundVaried,
                 history>>

\* a step off the default script is taken only while the budget allows
Budget(dev) ==
  /\ dev => (roundVaried \/ varied < MaxVaried)
  /\ varied' = IF dev /\ ~roundVaried THEN varied + 1 ELSE varied

\* start(controller): the working copy and the first round
Start ==
  /\ pc = "start"
  /\ LET wm0 == IF enableTools
                THEN <<Message("system", TOOL_SYSTEM_PROMPT(revision))>> \o messages
                ELSE messages
     IN IF LoopCondition(0)
        THEN BeginRound(wm0, 1, trace) /\ UNCHANGED controller
        ELSE Close(trace) /\ workingMessages' = wm0
             /\ UNCHANGED <<iterations, modelCalls, roundVaried>>
  /\ UNCHANGED <<request, handler, segments, fullContent, fullThinking, thinkingSent, toolCalls, toolIdx,
                 out, nChunks, toolOutputs, history, varied>>

\* await ollama.chat(...) resolves to the response iterator
ChatResolves ==
  /\ pc = "awaitChat"
  /\ pc' = "streaming"
  /\ fullContent' = <<>>
  /\ fullThinking' = <<>>
  /\ thinkingSent' = FALSE
  /\ toolCalls' = <<>>
  /\ toolIdx' = 0
  /\ nChunks' = 0
  /\ received' = <<>>
  /\ roundStart' = [out |-> Len(out), wm |-> Len(workingMessages)]
  /\ UNCHANGED <<request, handler, segments, workingMessages, iterations, controller, out, modelCalls, trace,
                 toolOutputs, varied, roundVaried>>

\* await ollama.chat(...) rejects
ChatRejects ==
  /\ pc = "awaitChat"
  /\ Throw
  /\ UNCHANGED <<toolOutputs, varied>>

\* the response iterator throws
StreamThrows ==
  /\ pc = "streaming"
  /\ Throw
  /\ UNCHANGED <<toolOutputs, varied>>

\* body of for await (const chunk of response)
StreamChunk(c) ==
  /\ pc = "streaming"
  /\ nChunks < MaxChunks
  /\ Budget(~(nChunks = 0 /\ c = DefaultChunk))
  /\ roundVaried' = (roundVaried \/ ~(nChunks = 0 /\ c = DefaultChunk))
  /\ LET thinking1 == IF revision = "final" THEN fullThinking \o c.thinking ELSE fullThinking
         sendThinking == /\ revision = "final"
                         /\ c.content # <<>>
                         /\ thinking1 # <<>>
                         /\ ~thinkingSent
     IN /\ fullThinking' = thinking1
        /\ thinkingSent' = (thinkingSent \/ sendThinking)
        /\ fullContent' = fullContent \o c.content
        /\ out' = out \o ChunkWrites(c.content, sendThinking, thinking1)
  /\ toolCalls' = IF c.hasToolCalls THEN c.tool_calls ELSE toolCalls
  /\ nChunks' = nChunks + 1
  /\ received' = Append(received, c)
  /\ UNCHANGED <<request, handler, segments, workingMessages, iterations, toolIdx, pc, controller, modelCalls,
                 trace, toolOutputs, roundStart>>

\* the model stream ends: the code after the for await, up to the first
\* await executeTool or to controller.close()
StreamEnd ==
  /\ pc = "streaming"
  /\ Budget(nChunks = 0)
  /\ roundVaried' = (roundVaried \/ nChunks = 0)
  /\ LET flush == revision = "final" /\ fullThinking # <<>> /\ ~thinkingSent
         tcs == DetermineToolCalls(toolCalls, fullContent)
         out1 == out \o (IF flush THEN <<ThinkingMarker(fullThinking)>> ELSE <<>>)
                    \o SeparatorWrites(Len(tcs))
     IN /\ toolCalls' = tcs
        /\ IF Len(tcs) = 0
           THEN /\ out' = out1
                /\ Close(trace)
                /\ UNCHANGED <<workingMessages, toolIdx>>
           ELSE /\ out' = out1
                /\ workingMessages' = Append(workingMessages, AssistantMessage(fullContent))
                /\ toolIdx' = 1
                /\ trace' = trace \o InvokeEvents(tcs, InvokedAfter(0, Len(tcs)), iterations, 1)
                /\ pc' = "awaitTool"
                /\ UNCHANGED controller
  /\ UNCHANGED <<request, handler, segments, iterations, fullContent, fullThinking, thinkingSent, nChunks,
                 modelCalls, toolOutputs, history>>

\* await executeTool(...) settles for the current tool call, with its handler
\* behaving as h: the rest of the for body, then the next call, the next
\* round or controller.close()
ToolSettles(h) ==
  /\ pc = "awaitTool"
  /\ (toolCalls[toolIdx].name \notin toolHandlers) => h = "ok"
  /\ Budget(h # "ok")
  /\ LET toolCall == toolCalls[toolIdx]
         settled == executeTool(toolCall.name, h)
         toolResult == ToolResultText(settled.value)
         wm1 == Append(workingMessages, Message("tool", toolResult))
         tr1 == trace \o <<Ev("marker", iterations, toolIdx),
                           Ev("toolMessage", iterations, toolIdx)>>
     IN /\ toolOutputs' = Append(toolOutputs,
                                 [name |-> toolCall.name, h |-> h, threw |-> settled.threw,
                                  value |-> settled.value])
        /\ IF settled.threw
          THEN Throw
          ELSE /\ out' = Append(out, ToolMarker(toolCall, toolResult))
               /\ IF toolIdx < Len(toolCalls)
                  THEN /\ toolIdx' = toolIdx + 1
                       /\ workingMessages' = wm1
                       /\ trace' = tr1 \o InvokeEvents(toolCalls,
                                                       InvokedAfter(toolIdx, Len(toolCalls)),
                                                       iterations, 1)
                       /\ roundVaried' = (roundVaried \/ h # "ok")
                       /\ UNCHANGED <<iterations, pc, controller, modelCalls>>
                  ELSE IF LoopCondition(iterations)
                  THEN /\ BeginRound(wm1, iterations + 1, tr1)
                       /\ UNCHANGED <<toolIdx, controller>>
                  ELSE /\ Close(tr1)
                       /\ workingMessages' = wm1
                       /\ roundVaried' = (roundVaried \/ h # "ok")
                       /\ UNCHANGED <<toolIdx, iterations, modelCalls>>
               /\ UNCHANGED <<request, handler, segments, fullContent, fullThinking, thinkingSent, toolCalls,
                              nChunks, history>>

Next ==
  \/ Start
  \/ ChatResolves
  \/ ChatRejects
  \/ StreamThrows
  \/ \E c \in Chunks : StreamChunk(c)
  \/ StreamEnd
  \/ \E h \in HandlerBehaviours : ToolSettles(h)

Spec == Init /\ [][Next]_vars

\* the runtime answers and tools settle: every pending continuation runs
FairSpec == Spec /\ WF_vars(Next)

\* -------------------------------------------------------------------------
\* parseTextToolCalls on its own: the text is drawn from the concatenations
\* of up to MaxFragments fragments, the call returns into toolCalls
\* -------------------------------------------------------------------------
TagCall(name) ==
  <<TOOL_CALL_OPEN, LBRACE, S("name"), COLON, S(name), RBRACE, TOOL_CALL_CLOSE>>

BareCall(key, name) == <<LBRACE, S(key), COLON, S(name), RBRACE>>

ArgsCall(name) == <<W(name), ARGS_TAG, LBRACE, RBRACE>>

Fragments ==
  { ArgsCall("calculator"), ArgsCall("bogus"),
    TagCall("calculator"), TagCall("bogus"),
    BareCall("tool", "calculator"), BareCall("tool", "bogus"),
    BareCall("function", "bogus"),
    <<LBRACE, S("function"), COLON, S("bogus"), COMMA, S("name"), COLON, S("calculator"), RBRACE>>,
    <<W("x")>>, <<SPACE>>, <<LBRACE>>, <<RBRACE>> }

ParseTexts ==
  { Concat(fs) : fs \in UNION { [1..n -> Fragments] : n \in 0..MaxFragments } }

ParseInit ==
  /\ pc = "parseCalled"
  /\ fullContent \in ParseTexts
  /\ toolCalls = <<>>
  /\ revision = "route"
  /\ enableTools = TRUE
  /\ messages = <<>>
  /\ workingMessages = <<>>
  /\ iterations = 0
  /\ fullThinking = <<>>
  /\ thinkingSent = FALSE
  /\ toolIdx = 0
  /\ controller = "open"
  /\ out = <<>>
  /\ nChunks = 0
  /\ modelCalls = <<>>
  /\ trace = <<>>
  /\ toolOutputs = <<>>
  /\ received = <<>>
  /\ roundStart = [out |-> 0, wm |-> 0]
  /\ segments = <<>>
  /\ NoHandler
  /\ peer = NoPeer
  /\ varied = 0
  /\ roundVaried = FALSE

ParseReturns ==
  /\ pc = "parseCalled"
  /\ toolCalls' = parseTextToolCalls(fullContent)
  /\ pc' = "parseReturned"
  /\ UNCHANGED <<request, handler, segments, workingMessages, iterations, fullContent, fullThinking, thinkingSent,
                 toolIdx, controller, out, nChunks, modelCalls, trace, toolOutputs, history,
                 varied, roundVaried>>

ParseNext == ParseReturns

ParseSpec == ParseInit /\ [][ParseNext]_vars

\* -------------------------------------------------------------------------
\* The message view (MarkdownMessage.tsx): parseContentRealtime over the
\* streamed text
\* -------------------------------------------------------------------------
THINK_OPEN == X("<think>")
THINK_CLOSE == X("</think>")
TOOL_START == X("<!--TOOL_START:")
TOOL_END == X("<!--TOOL_END-->")
ARROW == X("-->")
NEWLINES == X("\n\n")

\* tool names that are not matched by \w+
NonWordNames == {"web.search"}

IsWord(name) == name \notin NonWordNames

\* quoted strings whose text contains }--> : what the quoted text reads up
\* to and including the brace, and what it reads after the arrow
BraceArrowStrings == {"a}-->b"}

BeforeArrow(s) == X("\"a}")

AfterArrow(s) == X("b\"")

\* String.prototype.trim
RECURSIVE TrimLeft(_)
TrimLeft(toks) ==
  IF toks # <<>> /\ IsWs(Head(toks)) THEN TrimLeft(Tail(toks)) ELSE toks

RECURSIVE TrimRight(_)
TrimRight(toks) ==
  IF toks # <<>> /\ IsWs(toks[Len(toks)])
  THEN TrimRight(SubSeq(toks, 1, Len(toks) - 1)) ELSE toks

Trim(toks) == TrimRight(TrimLeft(toks))

Rest(toks, from) == SubSeq(toks, from, Len(toks))

\* .replace(/\w+\[ARGS\]\{[^}]*\}/g, '')
RECURSIVE RemoveArgsCalls(_)
RemoveArgsCalls(toks) ==
  LET i == FirstMatch1(toks, 1) IN
  IF i = 0 THEN toks
  ELSE LET j == FirstIdx(toks, RunEnd(toks, i) + 3, {RBRACE})
       IN SubSeq(toks, 1, i - 1) \o RemoveArgsCalls(Rest(toks, j + 1))

\* .replace(/<tool_call>[\s\S]*?<\/tool_call>/g, '')
RECURSIVE RemoveTagCalls(_)
RemoveTagCalls(toks) ==
  LET i == FirstIdx(toks, 1, {TOOL_CALL_OPEN})
      j == IF i = 0 THEN 0 ELSE FirstIdx(toks, i + 1, {TOOL_CALL_CLOSE})
  IN IF j = 0 THEN toks
     ELSE SubSeq(toks, 1, i - 1) \o RemoveTagCalls(Rest(toks, j + 1))

\* .replace(/\{[\s\S]*?"(?:tool|function)"[\s\S]*?\}/g, '')
RECURSIVE RemoveJsonCalls(_)
RemoveJsonCalls(toks) ==
  LET i == FirstIdx(toks, 1, {LBRACE})
      k == IF i = 0 THEN 0 ELSE FirstIdx(toks, i + 1, {S("tool"), S("function")})
      j == IF k = 0 THEN 0 ELSE FirstIdx(toks, k + 1, {RBRACE})
  IN IF j = 0 THEN toks
     ELSE SubSeq(toks, 1, i - 1) \o RemoveJsonCalls(Rest(toks, j + 1))

\* .replace(/\n{3,}/g, '\n\n'): a run of blank lines becomes one
RECURSIVE CollapseNewlines(_)
CollapseNewlines(toks) ==
  IF Len(toks) < 2 THEN toks
  ELSE IF toks[1] = NEWLINES /\ toks[2] = NEWLINES THEN CollapseNewlines(Tail(toks))
  ELSE <<Head(toks)>> \o CollapseNewlines(Tail(toks))

cleanTextContent(text) ==
  Trim(CollapseNewlines(RemoveJsonCalls(RemoveTagCalls(RemoveArgsCalls(text)))))

\* ParsedSegment and the ToolCall entries of a tool group
Segment(type, content, calls, isStreaming) ==
  [type |-> type, content |-> content, toolCalls |-> calls, isStreaming |-> isStreaming]

UiToolCall(toolName, args, result) == [toolName |-> toolName, args |-> args, result |-> result]

\* the accumulator of the parser: the segments pushed and currentToolGroup
ParseState(segs, group) == [segments |-> segs, currentToolGroup |-> group]

flushToolGroup(st, streaming) ==
  IF st.currentToolGroup # <<>>
  THEN ParseState(Append(st.segments, Segment("toolGroup", <<>>, st.currentToolGroup, streaming)),
                  <<>>)
  ELSE st

addTextSegment(st, text, streaming) ==
  LET cleaned == cleanTextContent(text) IN
  IF cleaned # <<>>
  THEN ParseState(Append(flushToolGroup(st, FALSE).segments,
                         Segment("text", cleaned, <<>>, streaming)), <<>>)
  ELSE st

\* (\{.*?\})--> from the brace at token from - 1: the first token at which
\* a closing brace is followed by the arrow, inside a quoted string or not;
\* 0 when a line break or the end of the text comes first
RECURSIVE ArgsEnd(_, _)
ArgsEnd(toks, from) ==
  IF from > Len(toks) THEN 0
  ELSE IF toks[from] = NEWLINES THEN 0
  ELSE IF toks[from].t = "s" /\ toks[from].v \in BraceArrowStrings THEN from
  ELSE IF toks[from] = RBRACE /\ from < Len(toks) /\ toks[from + 1] = ARROW THEN from
  ELSE ArgsEnd(toks, from + 1)

\* <!--TOOL_START:(\w+):(\{.*?\})--> matched at token i: the text of group 2
\* and the position and first token of what follows the arrow
StartMatch(toks, i) ==
  IF /\ i + 3 <= Len(toks)
     /\ toks[i] = TOOL_START
     /\ toks[i + 1].t = "x"
     /\ IsWord(toks[i + 1].v)
     /\ toks[i + 2] = X(":")
     /\ toks[i + 3] = LBRACE
     /\ ArgsEnd(toks, i + 4) # 0
  THEN LET k == ArgsEnd(toks, i + 4) IN
       IF toks[k].t = "s"
       THEN [ok |-> TRUE, toolName |-> toks[i + 1].v,
             args |-> SubSeq(toks, i + 3, k - 1) \o <<BeforeArrow(toks[k].v)>>,
             lead |-> <<AfterArrow(toks[k].v)>>, next |-> k + 1]
       ELSE [ok |-> TRUE, toolName |-> toks[i + 1].v,
             args |-> SubSeq(toks, i + 3, k), lead |-> <<>>, next |-> k + 2]
  ELSE [ok |-> FALSE, toolName |-> "", args |-> <<>>, lead |-> <<>>, next |-> 0]

\* combinedPattern can match at token i
BlockMatchAt(toks, i) ==
  \/ toks[i] = THINK_OPEN /\ FirstIdx(toks, i + 1, {THINK_CLOSE}) # 0
  \/ StartMatch(toks, i).ok /\ FirstIdx(toks, StartMatch(toks, i).next, {TOOL_END}) # 0

RECURSIVE FirstBlock(_, _)
FirstBlock(toks, from) ==
  IF from > Len(toks) THEN 0
  ELSE IF BlockMatchAt(toks, from) THEN from
  ELSE FirstBlock(toks, from + 1)

RECURSIVE FirstStart(_, _)
FirstStart(toks, from) ==
  IF from > Len(toks) THEN 0
  ELSE IF StartMatch(toks, from).ok THEN from
  ELSE FirstStart(toks, from + 1)

RECURSIVE LastIdx(_, _, _)
LastIdx(toks, i, tok) ==
  IF i = 0 THEN 0 ELSE IF toks[i] = tok THEN i ELSE LastIdx(toks, i - 1, tok)

\* args = JSON.parse(match[4]), {} when it throws
ParsedArgs(text) == IF JSONparse(text).ok THEN JSONparse(text).val ELSE JObj(<<>>)

\* a complete thinking block content[i..j]: the tools before it are flushed,
\* the trimmed text is pushed unless it is empty
ThinkingBlock(st, thinkingContent) ==
  IF thinkingContent # <<>>
  THEN ParseState(Append(flushToolGroup(st, FALSE).segments,
                         Segment("thinking", thinkingContent, <<>>, FALSE)), <<>>)
  ELSE flushToolGroup(st, FALSE)

\* a complete tool call, matched as m with its result ending before token e
ToolBlock(st, content, m, e) ==
  ParseState(st.segments,
             Append(st.currentToolGroup,
                    UiToolCall(m.toolName, ParsedArgs(m.args),
                               Trim(m.lead \o SubSeq(content, m.next, e - 1)))))

\* the text between two matches
TextBefore(st, content, lastIndex, i) ==
  IF i > lastIndex THEN addTextSegment(st, SubSeq(content, lastIndex, i - 1), FALSE) ELSE st

\* the token after the block matched at token i
BlockEnd(content, i) ==
  IF content[i] = THINK_OPEN THEN FirstIdx(content, i + 1, {THINK_CLOSE})
  ELSE FirstIdx(content, StartMatch(content, i).next, {TOOL_END})

\* the body of the while loop for the match at token i
MatchBody(st, content, i) ==
  IF content[i] = THINK_OPEN
  THEN ThinkingBlock(st, Trim(SubSeq(content, i + 1, BlockEnd(content, i) - 1)))
  ELSE ToolBlock(st, content, StartMatch(content, i), BlockEnd(content, i))

\* while ((match = combinedPattern.exec(content)) !== null) { ... }
RECURSIVE MatchLoop(_, _, _)
RECURSIVE MatchLoopAt(_, _, _, _)
MatchLoop(content, lastIndex, st) ==
  MatchLoopAt(content, lastIndex, st, FirstBlock(content, lastIndex))

MatchLoopAt(content, lastIndex, st, i) ==
  IF i = 0 THEN [st |-> st, lastIndex |-> lastIndex]
  ELSE MatchLoop(content, BlockEnd(content, i) + 1,
                 MatchBody(TextBefore(st, content, lastIndex, i), content, i))

\* the remaining content holds an open <think> at token thinkStartIndex
OpenThinking(st, remaining, thinkStartIndex) ==
  IF thinkStartIndex # 0
  THEN ParseState(Append(addTextSegment(st, SubSeq(remaining, 1, thinkStartIndex - 1),
                                        FALSE).segments,
                         Segment("thinking", Trim(Rest(remaining, thinkStartIndex + 1)),
                                 <<>>, TRUE)),
                  <<>>)
  ELSE st

\* result: partialResult || 'Loading...'
PartialResult(text) == IF text # <<>> THEN text ELSE <<X("Loading...")>>

\* the remaining content holds a tool call without its end, matched as m
OpenTool(st, remaining, m) ==
  flushToolGroup(ParseState(st.segments,
                            Append(st.currentToolGroup,
                                   UiToolCall(m.toolName, ParsedArgs(m.args),
                                              PartialResult(Trim(m.lead
                                                                 \o Rest(remaining, m.next)))))),
                 TRUE)

IncompleteTool(st, remaining, isStreaming, s) ==
  IF s # 0
  THEN OpenTool(addTextSegment(st, SubSeq(remaining, 1, s - 1), FALSE), remaining,
                StartMatch(remaining, s))
  ELSE addTextSegment(st, remaining, isStreaming)

isThinkingIncomplete(content) ==
  THINK_OPEN \in Range(content) /\ THINK_CLOSE \notin Range(content)

isToolIncomplete(content) ==
  /\ TOOL_START \in Range(content)
  /\ LastIdx(content, Len(content), TOOL_START) > LastIdx(content, Len(content), TOOL_END)

\* what follows the while loop: the remaining content after the last match
AfterLoop(content, isStreaming, st, remaining) ==
  IF isThinkingIncomplete(content)
  THEN OpenThinking(flushToolGroup(st, FALSE), remaining, FirstIdx(remaining, 1, {THINK_OPEN}))
  ELSE IF isToolIncomplete(content)
  THEN IncompleteTool(st, remaining, isStreaming, FirstStart(remaining, 1))
  ELSE addTextSegment(st, remaining, isStreaming /\ remaining # <<>>)

Remaining(content, isStreaming, looped) ==
  AfterLoop(content, isStreaming, looped.st, Rest(content, looped.lastIndex))

parseContentRealtime(content, isStreaming) ==
  flushToolGroup(Remaining(content, isStreaming, MatchLoop(content, 1, ParseState(<<>>, <<>>))),
                 FALSE).segments

\* -------------------------------------------------------------------------
\* One tool marker written by the loop and parsed by the message view
\* -------------------------------------------------------------------------
\* tool calls a model can make: a registered tool, and a name that is not
\* registered and not a plain word
RenderNames == {"read_file", "web.search"}

RenderArgs ==
  { JObj(<<>>),
    JObj(<< <<"path", JStr("a.txt")>> >>),
    JObj(<< <<"path", JStr("x-->y")>> >>),
    JObj(<< <<"path", JStr("a}-->b")>> >>) }

\* texts a handler can resolve to (file contents)
RenderResults ==
  { <<>>,
    <<X("42")>>,
    <<W("ok"), NEWLINES, W("done")>>,
    <<W("a"), ARROW, W("b")>>,
    <<W("a"), TOOL_END, W("b")>>,
    <<THINK_OPEN, W("a"), THINK_CLOSE>>,
    <<THINK_OPEN, W("a")>> }

\* what executeTool resolves to for a call of the tool
RenderOutputs(name) ==
  IF name \in toolHandlers THEN {ResultOk(text) : text \in RenderResults}
  ELSE {executeTool(name, "ok").value}

\* content streamed in the round before the tools ran
RenderContents == {<<>>, <<W("hi")>>}

RenderInit ==
  /\ pc = "roundStreamed"
  /\ revision = "route"
  /\ enableTools = TRUE
  /\ messages = <<>>
  /\ workingMessages = <<>>
  /\ iterations = 1
  /\ fullContent = <<>>
  /\ fullThinking = <<>>
  /\ thinkingSent = FALSE
  /\ toolCalls = <<>>
  /\ toolIdx = 0
  /\ controller = "open"
  /\ out = <<>>
  /\ nChunks = 0
  /\ modelCalls = <<>>
  /\ trace = <<>>
  /\ toolOutputs = <<>>
  /\ received = <<>>
  /\ roundStart = [out |-> 0, wm |-> 0]
  /\ segments = <<>>
  /\ NoHandler
  /\ peer = NoPeer
  /\ varied = 0
  /\ roundVaried = FALSE

\* route.ts:142-184 for a round with one tool call: the content, the
\* separator and the marker reach the client, and the stream is closed
RenderWrites(content, toolCall, toolOutput) ==
  /\ pc = "roundStreamed"
  /\ fullContent' = content
  /\ toolCalls' = <<toolCall>>
  /\ toolIdx' = 1
  /\ toolOutputs' = <<[name |-> toolCall.name, h |-> "ok", threw |-> FALSE, value |-> toolOutput]>>
  /\ out' = ChunkWrites(content, FALSE, <<>>) \o SeparatorWrites(1)
            \o <<ToolMarker(toolCall, ToolResultText(toolOutput))>>
  /\ controller' = "closed"
  /\ pc' = "written"
  /\ UNCHANGED <<request, handler, segments, workingMessages, iterations, fullThinking, thinkingSent,
                 nChunks, modelCalls, trace, history, varied, roundVaried>>

\* the message view parses the text it received
RenderParses ==
  /\ pc = "written"
  /\ segments' = parseContentRealtime(Concat(out), FALSE)
  /\ pc' = "rendered"
  /\ UNCHANGED <<request, handler, workingMessages, iterations, fullContent, fullThinking, thinkingSent,
                 toolCalls, toolIdx, controller, out, nChunks, modelCalls, trace, toolOutputs,
                 history, varied, roundVaried>>

RenderNext ==
  \/ \E content \in RenderContents, name \in RenderNames, args \in RenderArgs :
       \E toolOutput \in RenderOutputs(name) :
         RenderWrites(content, ToolCall(name, args), toolOutput)
  \/ RenderParses

RenderSpec == RenderInit /\ [][RenderNext]_vars

\* -------------------------------------------------------------------------
\* Properties
\* -------------------------------------------------------------------------

HasEvent(ev) == \E i \in DOMAIN trace : trace[i].ev = ev

ForceMessage == Message("user", FORCE_RESPONSE_MESSAGE)

IsToolMarker(chunk) == Len(chunk) > 0 /\ chunk[1] = X("<!--TOOL_START:")

\* C1: however the model and the tools behave, at most MAX_TOOL_ITERATIONS
\* model calls are issued (10 in route.ts, 5 in the forced-finalization
\* revision), one per round; when the last permitted round has dealt with its
\* tool calls no further round starts and the output stream is closed; and a
\* request whose runtime raised no error ends with the stream closed.
C1_RoundsInv ==
  /\ Len(modelCalls) <= MAX_TOOL_ITERATIONS
  /\ Len(modelCalls) = iterations
  /\ \A i \in DOMAIN modelCalls : modelCalls[i].iteration = i
  /\ (pc = "done" /\ ~HasEvent("error")) => controller = "closed"

C1_LastRoundStep ==
  (pc = "awaitTool" /\ toolIdx = Len(toolCalls) /\ iterations = MAX_TOOL_ITERATIONS)
    => (modelCalls' = modelCalls /\ pc' = "done" /\ controller' = "closed")

\* C1: the bound on model calls, the closing step after the last permitted
\* round, and termination of every request whose continuations are scheduled
C1_BoundedRounds ==
  /\ []C1_RoundsInv
  /\ [][C1_LastRoundStep]_vars
  /\ <>(pc = "done")

C1_Witness ==
  /\ revision = "route"
  /\ Len(modelCalls) = MAX_TOOL_ITERATIONS_route
  /\ Len(toolCalls) > 0
  /\ controller = "closed"

\* C2: in the forced-finalization revision the call of round 5 is issued
\* without tools and with FORCE_RESPONSE_MESSAGE as the last message, a user
\* message; every earlier call of a tools-enabled request passes the tools
\* and its transcript does not hold that message.
C2_ForcedFinalRound ==
  revision = "final" =>
    \A i \in DOMAIN modelCalls :
      LET call == modelCalls[i] IN
      IF call.iteration = MAX_TOOL_ITERATIONS_final
      THEN /\ ~call.tools
           /\ Last(call.messages) = ForceMessage
      ELSE /\ enableTools => call.tools
           /\ \A j \in DOMAIN call.messages :
                call.messages[j].content # FORCE_RESPONSE_MESSAGE

C2_Witness ==
  /\ revision = "final"
  /\ enableTools
  /\ Len(modelCalls) = MAX_TOOL_ITERATIONS_final
  /\ pc = "awaitChat"

\* C3: the 10-round loop of route.ts issues the call of round 10 with tools
\* disabled and with a forced-finalization instruction appended to the
\* transcript.
C3_RouteFinalRoundForced ==
  revision = "route" =>
    \A i \in DOMAIN modelCalls :
      modelCalls[i].iteration = MAX_TOOL_ITERATIONS_route =>
        /\ ~modelCalls[i].tools
        /\ Last(modelCalls[i].messages) = ForceMessage

\* C4: in the last permitted round of the forced-finalization loop no tool is
\* executed and no tool-result marker is written: what that round writes
\* before the stream closes is model output only.
C4_NoToolInFinalRound ==
  revision = "final" =>
    \A i \in DOMAIN trace :
      trace[i].round = MAX_TOOL_ITERATIONS_final => trace[i].ev \notin {"execute", "marker"}

\* C5: a tool invocation with a name outside the registry is dropped: it is
\* never among the calls being executed, no executeTool call is made for it,
\* and no 'Unknown tool' error text reaches the transcript or the stream.
C5_UnknownToolDropped ==
  /\ pc = "awaitTool" => \A k \in DOMAIN toolCalls : toolCalls[k].name \in toolHandlers
  /\ \A i \in DOMAIN toolOutputs : toolOutputs[i].name \in toolHandlers
  /\ \A i \in DOMAIN workingMessages :
       X("Unknown tool: ") \notin Range(workingMessages[i].content)
  /\ \A i \in DOMAIN out : X("Unknown tool: ") \notin Range(out[i])

\* C6: when an executed tool call settles, its tool-role message is appended
\* right after the messages already in the transcript, and its content is
\* exactly the result text on success and 'Error: ' followed by the error
\* text on failure, never the TOOL_START/TOOL_END decoration.
C6_ToolMessageStep ==
  (pc = "awaitTool" /\ Len(toolOutputs') = Len(toolOutputs) + 1) =>
    LET o == Last(toolOutputs').value
        n == Len(workingMessages)
    IN /\ Len(workingMessages') > n
       /\ SubSeq(workingMessages', 1, n) = workingMessages
       /\ workingMessages'[n + 1].role = "tool"
       /\ workingMessages'[n + 1].content =
            (IF o.success THEN o.result ELSE <<X("Error: ")>> \o o.error)
       /\ X("<!--TOOL_START:") \notin Range(workingMessages'[n + 1].content)
       /\ X("<!--TOOL_END-->") \notin Range(workingMessages'[n + 1].content)

\* C6: every step that settles a tool call appends exactly its result text
C6_ToolMessageContent == [][C6_ToolMessageStep]_vars

C6_Witness ==
  /\ Len(toolOutputs) > 0
  /\ ~Last(toolOutputs).value.success
  /\ pc = "awaitTool"
  /\ Last(workingMessages) = Message("tool", <<X("Error: ")>> \o Last(toolOutputs).value.error)

\* C7: executeTool never rejects, whatever the name and whatever the handler
\* does: it settles to a ToolResult in which success = true comes with a
\* result and no error, and success = false with an error and no result.
C7_ExecuteToolTotal ==
  \A i \in DOMAIN toolOutputs :
    LET o == toolOutputs[i] IN
    /\ ~o.threw
    /\ o.value.success => (o.value.hasResult /\ ~o.value.hasError)
    /\ ~o.value.success => (o.value.hasError /\ ~o.value.hasResult)

C7_Witness ==
  /\ \E i \in DOMAIN toolOutputs : toolOutputs[i].h = "throwOther"
  /\ \E i \in DOMAIN toolOutputs : toolOutputs[i].name \notin toolHandlers

\* C8: a tool call that fails (success = false, or a throwing handler) does
\* not abort the request: the failure is written to the stream as a marker
\* and appended to the transcript as 'Error: <message>', the next tool call
\* of the round is taken up, and after the last one the loop goes on to the
\* next model round (or, the budget used up, closes the stream normally).
C8_FailureStep ==
  (/\ pc = "awaitTool"
   /\ Len(toolOutputs') = Len(toolOutputs) + 1
   /\ Last(toolOutputs').h # "ok" \/ Last(toolOutputs').name \notin toolHandlers) =>
    LET o == Last(toolOutputs').value
        text == <<X("Error: ")>> \o o.error
    IN /\ ~o.success
       /\ controller' # "errored"
       /\ Len(out') = Len(out) + 1
       /\ IsToolMarker(Last(out'))
       /\ \E a \in 1..Len(Last(out')) :
            SubSeq(Last(out'), a, a + Len(text) - 1) = text
       /\ workingMessages'[Len(workingMessages) + 1] = Message("tool", text)
       /\ IF toolIdx < Len(toolCalls)
          THEN pc' = "awaitTool" /\ toolIdx' = toolIdx + 1
          ELSE IF iterations < MAX_TOOL_ITERATIONS
          THEN pc' = "awaitChat" /\ Len(modelCalls') = Len(modelCalls) + 1
          ELSE controller' = "closed"

\* C8: every step that settles a failing tool call carries on with the loop
C8_FailureDoesNotAbort == [][C8_FailureStep]_vars

C8_Witness ==
  /\ \E i \in DOMAIN toolOutputs :
       /\ toolOutputs[i].h \in {"fail", "throwError"}
       /\ i < Len(toolOutputs)
  /\ Len(modelCalls) > 1
  /\ \E j \in DOMAIN modelCalls :
       \E m \in DOMAIN modelCalls[j].messages :
         /\ modelCalls[j].messages[m].role = "tool"
         /\ modelCalls[j].messages[m].content[1] = X("Error: ")

\* C9: once the model call or its stream has raised an error, the output
\* stream is in the error state and stays there, nothing more is written to
\* it, and no further model call or tool execution happens.
C9_ErrorInv ==
  HasEvent("error") =>
    /\ controller = "errored"
    /\ pc = "done"
    /\ Last(trace).ev = "error"
    /\ \A i \in 1..(Len(trace) - 1) : trace[i].ev # "error"

C9_ErrorStep ==
  controller = "errored" =>
    UNCHANGED <<controller, out, modelCalls, toolOutputs, trace, workingMessages>>

\* C9: a runtime error leaves the stream errored and nothing happens after it
C9_ModelErrorAborts == []C9_ErrorInv /\ [][C9_ErrorStep]_vars

C9_Witness ==
  /\ controller = "errored"
  /\ iterations > 1
  /\ pc = "done"
  /\ Len(out) > 1

\* C10: within a round the tool calls run one at a time in list order:
\* executeTool for call k+1 is invoked only after the marker of call k has
\* been written and its tool message appended; markers and tool messages
\* follow the invocation list, one each per call.
C10_Sequential ==
  /\ \A i \in DOMAIN trace :
       (trace[i].ev = "execute" /\ trace[i].k > 1) =>
         /\ \E m \in 1..(i - 1) : trace[m] = Ev("marker", trace[i].round, trace[i].k - 1)
         /\ \E m \in 1..(i - 1) : trace[m] = Ev("toolMessage", trace[i].round, trace[i].k - 1)
  /\ pc = "awaitTool" =>
       LET done == toolIdx - 1
           ob == Len(out) - done
           wb == Len(workingMessages) - done
       IN /\ out[ob] = Separator
          /\ workingMessages[wb].role = "assistant"
          /\ \A k \in 1..done :
               /\ IsToolMarker(out[ob + k])
               /\ out[ob + k][2] = X(toolCalls[k].name)
               /\ workingMessages[wb + k].role = "tool"
               /\ toolOutputs[Len(toolOutputs) - done + k].name = toolCalls[k].name

C10_Witness ==
  /\ pc = "awaitTool"
  /\ toolIdx = 2
  /\ Len(toolCalls) = 2
  /\ toolCalls[1].name # toolCalls[2].name

\* what the current round has written to the client stream so far
RoundOut == SubSeq(out, roundStart.out + 1, Len(out))

\* what the current round has appended to the working transcript so far
RoundMessages == SubSeq(workingMessages, roundStart.wm + 1, Len(workingMessages))

IsThinkBlock(chunk) == Len(chunk) > 0 /\ chunk[1] = X("<think>")

ThinkText(chunk) == SubSeq(chunk, 2, Len(chunk) - 2)

IsSeparator(chunk) == chunk = Separator

ReceivedThinking == Concat([i \in DOMAIN received |-> received[i].thinking])

ReceivedContent == Concat([i \in DOMAIN received |-> received[i].content])

\* the model stream of the current round has been read to its end
StreamEnded == pc = "awaitTool" \/ (pc = "done" /\ controller = "closed")

ThinkBlocks == SelectSeq(RoundOut, IsThinkBlock)

\* C11: once the stream of a round of the thinking revision has ended, the
\* text inside the <think> blocks written in that round is exactly the
\* thinking text received in that round, each token once, in whatever order
\* thinking and content chunks arrived.
C11_ThinkingComplete ==
  (revision = "final" /\ StreamEnded)
    => Concat([i \in DOMAIN ThinkBlocks |-> ThinkText(ThinkBlocks[i])]) = ReceivedThinking

\* C12: a round of the thinking revision writes at most one <think> block,
\* and nothing of the round is written before it: it precedes the first
\* content token, or stands alone at stream end when the round has no
\* content; it never follows a content token of the same round.
C12_ThinkingPlacement ==
  (revision = "final" /\ StreamEnded)
    => /\ Len(ThinkBlocks) <= 1
       /\ \A i \in DOMAIN RoundOut : IsThinkBlock(RoundOut[i]) => i = 1

RECURSIVE LastReported(_, _)
LastReported(chunks, i) ==
  IF i = 0 THEN <<>>
  ELSE IF chunks[i].hasToolCalls THEN chunks[i].tool_calls
  ELSE LastReported(chunks, i - 1)

\* the structured tool-call list the runtime reported for the current round:
\* the value of the last tool_calls field of the stream, empty if there is none
ReportedToolCalls == LastReported(received, Len(received))

\* C13: after a round's stream has ended the tool calls of the round are the
\* structured list the runtime reported when that list is non-empty (the
\* text of the round is not consulted); otherwise, with tools enabled, what
\* parseTextToolCalls finds in the accumulated content; otherwise none,
\* whatever the content holds.
C13_ToolCallDecision ==
  StreamEnded
    => /\ ReportedToolCalls # <<>> => toolCalls = ReportedToolCalls
       /\ (ReportedToolCalls = <<>> /\ enableTools)
            => toolCalls = parseTextToolCalls(ReceivedContent)
       /\ (ReportedToolCalls = <<>> /\ ~enableTools) => toolCalls = <<>>

C13_Witness ==
  /\ StreamEnded
  /\ enableTools
  /\ ReportedToolCalls # <<>>
  /\ parseTextToolCalls(ReceivedContent) # <<>>
  /\ parseTextToolCalls(ReceivedContent) # ReportedToolCalls
  /\ toolCalls = ReportedToolCalls

\* C14: whatever the text, every invocation parseTextToolCalls returns
\* names a registered tool; a well-formed match of any of the three
\* syntaxes that names an unregistered tool adds nothing to the result (a
\* text in which no registered name occurs yields no invocation).
C14_OnlyRegistered ==
  pc = "parseReturned"
    => /\ \A i \in DOMAIN toolCalls : toolCalls[i].name \in toolHandlers
       /\ (\A i \in DOMAIN fullContent : fullContent[i].v \notin toolHandlers)
            => toolCalls = <<>>

C14_Witness ==
  /\ pc = "parseReturned"
  /\ fullContent = ArgsCall("bogus") \o TagCall("bogus") \o BareCall("tool", "bogus")
  /\ toolCalls = <<>>

IsPrefix(a, b) == Len(a) <= Len(b) /\ SubSeq(b, 1, Len(a)) = a

\* C15: every step of a request leaves the working transcript as it was or
\* appends to it (the transcript before the step is a prefix of the
\* transcript after it, also on the step that appends the forced
\* finalization message); the caller's message array keeps its value and
\* stays in the transcript where the working copy put it.
C15_AppendStep ==
  /\ IsPrefix(workingMessages, workingMessages')
  /\ messages' = messages
  /\ pc' # "start"
       => LET off == IF enableTools THEN 1 ELSE 0
          IN SubSeq(workingMessages', off + 1, off + Len(messages)) = messages

\* every tool message ever pushed is still in the transcript
C15_NothingRemoved ==
  Cardinality({i \in DOMAIN workingMessages : workingMessages[i].role = "tool"})
    = Cardinality({i \in DOMAIN trace : trace[i].ev = "toolMessage"})

C15_AppendOnly == []C15_NothingRemoved /\ [][C15_AppendStep]_vars

C15_Witness ==
  /\ revision = "final"
  /\ iterations = MAX_TOOL_ITERATIONS_final
  /\ \E i \in DOMAIN workingMessages :
       /\ workingMessages[i] = ForceMessage
       /\ i > 1
       /\ workingMessages[i - 1].role = "tool"

\* the messages a round with n settled tool calls has appended: msgs starts
\* with the assistant message holding the streamed content, then n tool
\* messages
RoundAppended(msgs, n) ==
  /\ Len(msgs) >= n + 1
  /\ msgs[1] = Message("assistant", ReceivedContent)
  /\ \A i \in 2..(n + 1) : msgs[i].role = "tool"

\* C16: after its stream has opened, a round appends nothing while it
\* streams and nothing at all when it ends without tool calls; a round with
\* tool calls appends one assistant message whose content is the streamed
\* content tokens in order and nothing else, then one tool message per tool
\* call dealt with, and no other message (the next round may then add its
\* forced-finalization message).
C16_RoundMessages ==
  /\ pc = "streaming" => RoundMessages = <<>>
  /\ (StreamEnded /\ toolCalls = <<>>) => RoundMessages = <<>>
  /\ (pc = "awaitTool")
       => RoundAppended(RoundMessages, toolIdx - 1) /\ Len(RoundMessages) = toolIdx
  /\ (pc = "done" /\ controller = "closed" /\ toolCalls # <<>>)
       => RoundAppended(RoundMessages, Len(toolCalls))
          /\ Len(RoundMessages) = Len(toolCalls) + 1
  /\ (pc = "awaitChat" /\ iterations > 1)
       => /\ RoundAppended(RoundMessages, Len(toolCalls))
          /\ \A i \in DOMAIN RoundMessages :
               i > Len(toolCalls) + 1
                 => i = Len(toolCalls) + 2 /\ RoundMessages[i] = ForceMessage

C16_Witness ==
  /\ revision = "final"
  /\ pc = "awaitChat"
  /\ iterations = 2
  /\ ReceivedThinking # <<>>
  /\ Len(toolCalls) = 2
  /\ RoundMessages = << Message("assistant", <<W("so")>>),
                        RoundMessages[2], RoundMessages[3] >>
  /\ RoundMessages[2].role = "tool"
  /\ RoundMessages[3].role = "tool"

\* the step on which the stream of a round ends with zero tool calls
EndsWithoutToolCalls ==
  /\ pc = "streaming"
  /\ pc' # "streaming"
  /\ controller' # "errored"
  /\ toolCalls' = <<>>

C17_LastRoundStep ==
  /\ EndsWithoutToolCalls
       => /\ pc' = "done"
          /\ controller' = "closed"
          /\ modelCalls' = modelCalls
          /\ toolOutputs' = toolOutputs
          /\ workingMessages' = workingMessages
          /\ trace' = Append(trace, Ev("close", iterations, 0))
          /\ IsPrefix(out, out')
          /\ \A i \in (Len(out) + 1)..Len(out') :
               ~IsSeparator(out'[i]) /\ ~IsToolMarker(out'[i])
  /\ pc # "done"

\* C17: the step that ends a round with zero tool calls closes the output
\* stream normally and issues no model call, executes no tool and writes
\* neither a separator nor a tool marker; nothing happens after it.
C17_NoToolCallsEnds == [][C17_LastRoundStep]_vars

C17_Witness ==
  /\ pc = "done"
  /\ controller = "closed"
  /\ toolCalls = <<>>
  /\ iterations = 2
  /\ ReceivedContent # <<>>
  /\ Last(trace) = Ev("close", 2, 0)
  /\ Len(modelCalls) = 2

IsText(chunk) == ~IsThinkBlock(chunk) /\ ~IsSeparator(chunk) /\ ~IsToolMarker(chunk)

NonEmpty(seq) == seq # <<>>

\* the non-empty content tokens received in the current round, in arrival order
ReceivedTokens == SelectSeq([i \in DOMAIN received |-> received[i].content], NonEmpty)

\* the step that consumes a chunk carrying text ends with that text written
C18_ForwardStep ==
  (pc = "streaming" /\ Len(received') = Len(received) + 1 /\ Last(received').content # <<>>)
    => /\ Len(out') > Len(out)
       /\ Last(out') = Last(received').content
       /\ IsPrefix(out, out')

\* from the opening of a round's stream on, the text chunks of the round's
\* output are the content tokens received, in arrival order
C18_InOrder ==
  (pc = "streaming" \/ StreamEnded) => SelectSeq(RoundOut, IsText) = ReceivedTokens

\* C18: a non-empty content token is on the client stream at the end of the
\* step that received it, hence before the next chunk is read and before the
\* stream ends; the round's output holds the content tokens in arrival
\* order, each once.
C18_ForwardedOnArrival == []C18_InOrder /\ [][C18_ForwardStep]_vars

C18_Witness ==
  /\ pc = "streaming"
  /\ revision = "final"
  /\ ReceivedTokens = << <<W("hi")>>, <<W("so")>> >>
  /\ SelectSeq(RoundOut, IsText) = ReceivedTokens
  /\ Len(RoundOut) = 3

\* the tool calls of the current round that have been dealt with
SettledCalls == IF pc = "awaitTool" THEN toolIdx - 1 ELSE Len(toolCalls)

\* the round's output without its thinking block
RoundVisible == SelectSeq(RoundOut, LAMBDA chunk : ~IsThinkBlock(chunk))

\* C19: once the stream of a round has ended, the round's output is its
\* content tokens in order and, when the round has tool calls, after them
\* one separator and then one tool marker per tool call dealt with, in call
\* order; a round without tool calls has no separator and no marker.
C19_OutputOrder ==
  (StreamEnded \/ (pc = "awaitChat" /\ iterations > 1))
    => IF toolCalls = <<>>
       THEN RoundVisible = ReceivedTokens
       ELSE /\ Len(RoundVisible) = Len(ReceivedTokens) + 1 + SettledCalls
            /\ SubSeq(RoundVisible, 1, Len(ReceivedTokens)) = ReceivedTokens
            /\ RoundVisible[Len(ReceivedTokens) + 1] = Separator
            /\ \A k \in 1..SettledCalls :
                 LET marker == RoundVisible[Len(ReceivedTokens) + 1 + k]
                 IN IsToolMarker(marker) /\ marker[2] = X(toolCalls[k].name)

C19_Witness ==
  /\ pc = "done"
  /\ controller = "closed"
  /\ Len(toolCalls) = 2
  /\ ReceivedTokens = << <<W("hi")>> >>
  /\ Len(RoundOut) = 4
  /\ RoundOut[1] = <<W("hi")>>
  /\ RoundOut[2] = Separator
  /\ IsToolMarker(RoundOut[3])
  /\ IsToolMarker(RoundOut[4])

\* the segments a faithful parse of the written round yields
ExpectedSegments ==
  (IF fullContent # <<>> THEN <<Segment("text", fullContent, <<>>, FALSE)>> ELSE <<>>)
  \o << Segment("toolGroup", <<>>,
                << UiToolCall(toolCalls[1].name, toolCalls[1].arguments,
                              Trim(ToolResultText(toolOutputs[1].value))) >>,
                FALSE) >>

\* C20: whatever tool name, argument map and result text the loop wrote as
\* a marker, the message view shows one tool entry with that name, those
\* arguments and that result (trimmed), and no text segment other than the
\* round's content.
C20_RoundTrip == pc = "rendered" => segments = ExpectedSegments

\* ---------------------------------------------------------------------------
\* Tool handlers (src/lib/tools/*.ts), each followed through one call.
\* pc runs handlerCalled -> (one label per pending outside call) ->
\* handlerReturned; effects lists the outside calls in the order they were
\* made, each with the answer it got.
\* ---------------------------------------------------------------------------

\* argument values as a handler receives them
Undefined == [k |-> "undefined"]
Null == [k |-> "null"]
Bool(b) == [k |-> "bool", v |-> b]
\* a string, as the sequence of its pieces; no piece is a prefix of another,
\* so one string starts with another exactly when its pieces do
Str(v) == [k |-> "str", v |-> v]
\* a text of which only the sizes matter: length is String.length (UTF-16
\* units), bytes is the size of its UTF-8 encoding
Content(length, bytes) == [k |-> "str", v |-> <<"data">>, length |-> length, bytes |-> bytes]

\* !value for the argument values above
Falsy(val) == \/ val.k \in {"undefined", "null"}
              \/ val.k = "str" /\ val.v = <<>>
              \/ val.k = "bool" /\ ~val.v
              \/ val.k = "number" /\ val.v = 0

\* the chat variables, which no handler touches
chat == <<request, workingMessages, iterations, fullContent, fullThinking, thinkingSent,
          toolCalls, toolIdx, controller, out, nChunks, modelCalls, trace, toolOutputs,
          history, segments, varied, roundVaried>>

\* no chat request is in progress
ChatIdle ==
  /\ revision = "route"
  /\ enableTools = TRUE
  /\ messages = <<>>
  /\ workingMessages = <<>>
  /\ iterations = 0
  /\ fullContent = <<>>
  /\ fullThinking = <<>>
  /\ thinkingSent = FALSE
  /\ toolCalls = <<>>
  /\ toolIdx = 0
  /\ controller = "open"
  /\ out = <<>>
  /\ nChunks = 0
  /\ modelCalls = <<>>
  /\ trace = <<>>
  /\ toolOutputs = <<>>
  /\ received = <<>>
  /\ roundStart = [out |-> 0, wm |-> 0]
  /\ segments = <<>>
  /\ varied = 0
  /\ roundVaried = FALSE
  /\ peer = NoPeer

Pending == [k |-> "pending"]
Throws == [k |-> "throws"]

\* an outside call as it is made, and the list once its answer has arrived
Call(op, target, data) == [op |-> op, target |-> target, data |-> data, answer |-> Pending]
Settled(answer) == [effects EXCEPT ![Len(effects)].answer = answer]

\* the handler returns; the handler stops at an await
Return(result, calls) ==
  /\ pc' = "handlerReturned"
  /\ handlerResult' = result
  /\ effects' = calls
Await(label, calls) ==
  /\ pc' = label
  /\ effects' = calls
  /\ UNCHANGED handlerResult

\* ---- file-operations.ts: read_file and write_file ------------------------

MAX_READ_SIZE == 5242880
MAX_WRITE_SIZE == 1048576

\* process.cwd() of the server
cwd == <<"/", "app">>

\* String.prototype.split on a one-piece separator
RECURSIVE SplitAt(_, _, _)
SplitAt(seq, sep, piece) ==
  IF seq = <<>> THEN <<piece>>
  ELSE IF Head(seq) = sep THEN <<piece>> \o SplitAt(Tail(seq), sep, <<>>)
  ELSE SplitAt(Tail(seq), sep, Append(piece, Head(seq)))

split(seq, sep) == SplitAt(seq, sep, <<>>)

\* String.prototype.trim
RECURSIVE trimStart(_)
trimStart(seq) ==
  IF seq # <<>> /\ Head(seq) \in {" ", "\n"} THEN trimStart(Tail(seq)) ELSE seq

RECURSIVE trimEnd(_)
trimEnd(seq) ==
  IF seq # <<>> /\ seq[Len(seq)] \in {" ", "\n"}
  THEN trimEnd(SubSeq(seq, 1, Len(seq) - 1)) ELSE seq

trim(seq) == trimEnd(trimStart(seq))

startsWith(seq, prefix) ==
  Len(prefix) <= Len(seq) /\ SubSeq(seq, 1, Len(prefix)) = prefix

\* path normalisation: empty and "." segments vanish, ".." removes the
\* segment before it (and nothing at the root)
RECURSIVE NormalizeSegments(_, _)
NormalizeSegments(segs, kept) ==
  IF segs = <<>> THEN kept
  ELSE IF Head(segs) = <<>> \/ Head(segs) = <<".">>
  THEN NormalizeSegments(Tail(segs), kept)
  ELSE IF Head(segs) = <<".", ".">>
  THEN NormalizeSegments(Tail(segs),
                         IF kept = <<>> THEN kept ELSE SubSeq(kept, 1, Len(kept) - 1))
  ELSE NormalizeSegments(Tail(segs), Append(kept, Head(segs)))

RECURSIVE JoinSegments(_)
JoinSegments(segs) ==
  IF segs = <<>> THEN <<>> ELSE <<"/">> \o Head(segs) \o JoinSegments(Tail(segs))

Absolute(p) == IF p # <<>> /\ Head(p) = "/" THEN p ELSE cwd \o <<"/">> \o p

\* path.resolve of one path: absolute, normalised, no trailing slash
resolve(p) ==
  IF NormalizeSegments(split(Absolute(p), "/"), <<>>) = <<>>
  THEN <<"/">>
  ELSE JoinSegments(NormalizeSegments(split(Absolute(p), "/"), <<>>))

\* path.dirname of a resolved path
dirname(p) ==
  IF Len(split(p, "/")) <= 2
  THEN <<"/">>
  ELSE JoinSegments(SubSeq(split(p, "/"), 2, Len(split(p, "/")) - 1))

DefaultAllowedPaths == <<"/", "tmp", ",", ".", "/", "workspace">>

AllowedPathsSetting(env) == IF env = <<>> THEN DefaultAllowedPaths ELSE env

\* env is the value of TOOL_FILE_ALLOWED_PATHS, <<>> when unset or empty
ALLOWED_DIRECTORIES(env) ==
  [i \in 1..Len(split(AllowedPathsSetting(env), ",")) |->
     resolve(trim(split(AllowedPathsSetting(env), ",")[i]))]

\* the test on the path as given, without resolving it
isPathAllowed_unresolved(filePath, env) ==
  \E i \in 1..Len(ALLOWED_DIRECTORIES(env)) :
    startsWith(filePath, ALLOWED_DIRECTORIES(env)[i])

isPathAllowed(filePath, env) ==
  \E i \in 1..Len(ALLOWED_DIRECTORIES(env)) :
    startsWith(resolve(filePath), ALLOWED_DIRECTORIES(env)[i])

AccessDenied(env) ==
  <<"Access denied. File must be in one of: ", ALLOWED_DIRECTORIES(env)>>

\* what the file system may answer
StatAnswers ==
  {Throws} \cup {[k |-> "ok", size |-> n] : n \in {0, MAX_READ_SIZE, MAX_READ_SIZE + 1}}
ReadAnswers == {Throws, [k |-> "ok", content |-> Content(3, 3)]}
VoidAnswers == {Throws, [k |-> "ok"]}

\* the message of what fs threw
FsError == <<"ENOENT: no such file or directory">>

ContentTooLarge(content) == content.length > MAX_WRITE_SIZE

\* the calls followed
AllowedPathsEnvs ==
  { <<>>,
    <<"/", "tmp">>,
    <<" ", "/", "tmp", " ", ",", "/", "data">> }

FilePaths ==
  { Undefined,
    Str(<<>>),
    Str(<<"/">>),
    Str(<<"/", "tmp">>),
    Str(<<"/", "tmp", "/", "a">>),
    Str(<<"/", "tmp", "x", "/", "a">>),
    Str(<<"/", "etc", "/", "passwd">>),
    Str(<<"/", "tmp", "/", ".", ".", "/", "etc", "/", "passwd">>),
    Str(<<".", ".", "/", "tmp", "/", "a">>),
    Str(<<"workspace", "/", "a">>),
    Str(<<".", "/", "workspace", "/", ".", ".", "/", "a">>),
    Str(<<"a">>) }

FileContents ==
  { Undefined, Null,
    Content(0, 0),
    Content(MAX_WRITE_SIZE, MAX_WRITE_SIZE),
    Content(MAX_WRITE_SIZE + 1, MAX_WRITE_SIZE + 1),
    Content(MAX_WRITE_SIZE, 3 * MAX_WRITE_SIZE) }

FileReadCalls ==
  { [tool |-> "read_file", env |-> env, path |-> p, encoding |-> e] :
      env \in AllowedPathsEnvs, p \in FilePaths,
      e \in {Undefined, Str(<<"base64">>)} }

FileWriteCalls ==
  { [tool |-> "write_file", env |-> env, path |-> p, content |-> c, append |-> a] :
      env \in AllowedPathsEnvs, p \in FilePaths, c \in FileContents,
      a \in {Undefined, Bool(TRUE)} }

\* fileReadHandler up to its first await
fileReadHandler ==
  /\ pc = "handlerCalled"
  /\ handlerArgs.tool = "read_file"
  /\ IF Falsy(handlerArgs.path)
     THEN Return(ResultError(<<"No file path provided">>), effects)
     ELSE IF ~isPathAllowed(handlerArgs.path.v, handlerArgs.env)
     THEN Return(ResultError(AccessDenied(handlerArgs.env)), effects)
     ELSE Await("statPending",
                Append(effects, Call("stat", resolve(handlerArgs.path.v), Undefined)))
  /\ UNCHANGED <<chat, handlerArgs>>

\* fs.stat settles
fileReadHandler_stat(answer) ==
  /\ pc = "statPending"
  /\ IF answer = Throws
     THEN Return(ResultError(FsError), Settled(answer))
     ELSE IF answer.size > MAX_READ_SIZE
     THEN Return(ResultError(<<"File too large (", answer.size, " bytes). Maximum: ",
                               MAX_READ_SIZE, " bytes">>),
                 Settled(answer))
     ELSE Await("readPending",
                Append(Settled(answer),
                       Call("readFile", resolve(handlerArgs.path.v),
                            IF handlerArgs.encoding = Str(<<"base64">>)
                            THEN Str(<<"base64">>) ELSE Str(<<"utf-8">>))))
  /\ UNCHANGED <<chat, handlerArgs>>

\* fs.readFile settles
fileReadHandler_readFile(answer) ==
  /\ pc = "readPending"
  /\ IF answer = Throws
     THEN Return(ResultError(FsError), Settled(answer))
     ELSE Return(ResultOk(<<"Contents of ", handlerArgs.path.v, ":\n\n", answer.content>>),
                 Settled(answer))
  /\ UNCHANGED <<chat, handlerArgs>>

\* fileWriteHandler up to its first await
fileWriteHandler ==
  /\ pc = "handlerCalled"
  /\ handlerArgs.tool = "write_file"
  /\ IF Falsy(handlerArgs.path)
     THEN Return(ResultError(<<"No file path provided">>), effects)
     ELSE IF handlerArgs.content.k \in {"undefined", "null"}
     THEN Return(ResultError(<<"No content provided">>), effects)
     ELSE IF ~isPathAllowed(handlerArgs.path.v, handlerArgs.env)
     THEN Return(ResultError(AccessDenied(handlerArgs.env)), effects)
     ELSE IF ContentTooLarge(handlerArgs.content)
     THEN Return(ResultError(<<"Content too large (", handlerArgs.content.length,
                               " bytes). Maximum: ", MAX_WRITE_SIZE, " bytes">>),
                 effects)
     ELSE Await("mkdirPending",
                Append(effects,
                       Call("mkdir", dirname(resolve(handlerArgs.path.v)), Undefined)))
  /\ UNCHANGED <<chat, handlerArgs>>

\* fs.mkdir settles
fileWriteHandler_mkdir(answer) ==
  /\ pc = "mkdirPending"
  /\ IF answer = Throws
     THEN Return(ResultError(FsError), Settled(answer))
     ELSE Await("writePending",
                Append(Settled(answer),
                       Call(IF Falsy(handlerArgs.append) THEN "writeFile" ELSE "appendFile",
                            resolve(handlerArgs.path.v), handlerArgs.content)))
  /\ UNCHANGED <<chat, handlerArgs>>

\* fs.writeFile or fs.appendFile settles
fileWriteHandler_write(answer) ==
  /\ pc = "writePending"
  /\ IF answer = Throws
     THEN Return(ResultError(FsError), Settled(answer))
     ELSE Return(ResultOk(<<"Successfully ",
                            IF Falsy(handlerArgs.append) THEN "wrote" ELSE "appended to",
                            " file: ", handlerArgs.path.v>>),
                 Settled(answer))
  /\ UNCHANGED <<chat, handlerArgs>>

\* ---- weather.ts: get_weather ---------------------------------------------

\* a geocoding match
Geo(name, admin1, country) ==
  [name |-> name, admin1 |-> admin1, country |-> country, latitude |-> 48, longitude |-> 2]

List(v) == [k |-> "list", v |-> v]

\* what the geocoding service may answer: the fetch rejects, a response
\* that is not ok, a body that is no JSON, or a JSON body
GeoAnswers ==
  { Throws,
    [k |-> "response", ok |-> FALSE],
    [k |-> "response", ok |-> TRUE, json |-> Throws],
    [k |-> "response", ok |-> TRUE, json |-> [results |-> Undefined]],
    [k |-> "response", ok |-> TRUE, json |-> [results |-> List(<<>>)]],
    [k |-> "response", ok |-> TRUE,
     json |-> [results |-> List(<<Geo("Paris", Undefined, "France")>>)]],
    [k |-> "response", ok |-> TRUE,
     json |-> [results |-> List(<<Geo("Paris", Str(<<"Texas">>), "United States")>>)]] }

ForecastAnswers ==
  { Throws,
    [k |-> "response", ok |-> FALSE],
    [k |-> "response", ok |-> TRUE, json |-> Throws],
    [k |-> "response", ok |-> TRUE,
     json |-> [current |-> [temperature_2m |-> 21, weather_code |-> 0, is_day |-> 1]]] }

WeatherCalls ==
  { [tool |-> "get_weather", location |-> l, units |-> u] :
      l \in {Undefined, Str(<<>>), Str(<<"Paris">>), Str(<<"Atlantis">>)},
      u \in {Undefined, Str(<<"imperial">>)} }

\* the test that lets only a missing result list count as no match
NoMatches_missingOnly(geoData) == Falsy(geoData.results)

\* !geoData.results || geoData.results.length === 0
NoMatches(geoData) == Falsy(geoData.results) \/ Len(geoData.results.v) = 0

geoUrl(location) ==
  <<"https://geocoding-api.open-meteo.com/v1/search?name=", location,
    "&count=1&language=en&format=json">>

weatherUrl(geo, units) ==
  <<"https://api.open-meteo.com/v1/forecast?latitude=", geo.latitude, "&longitude=",
    geo.longitude, "&temperature_unit=",
    IF units = Str(<<"imperial">>) THEN "fahrenheit" ELSE "celsius",
    "&wind_speed_unit=", IF units = Str(<<"imperial">>) THEN "mph" ELSE "kmh">>

locationName(geo) ==
  IF Falsy(geo.admin1)
  THEN <<geo.name, ", ", geo.country>>
  ELSE <<geo.name, ", ", geo.admin1.v, ", ", geo.country>>

WeatherReport(geo, current, units) ==
  <<"Weather for ", locationName(geo), ":", current,
    IF units = Str(<<"imperial">>) THEN "°F" ELSE "°C">>

\* weatherHandler up to the geocoding fetch
weatherHandler ==
  /\ pc = "handlerCalled"
  /\ handlerArgs.tool = "get_weather"
  /\ IF Falsy(handlerArgs.location)
     THEN Return(ResultError(<<"No location provided">>), effects)
     ELSE Await("geocodePending",
                Append(effects, Call("fetch", geoUrl(handlerArgs.location.v), Undefined)))
  /\ UNCHANGED <<chat, handlerArgs>>

\* the geocoding answer arrives and is read
weatherHandler_geocode(answer) ==
  /\ pc = "geocodePending"
  /\ IF answer = Throws
     THEN Return(ResultError(<<"fetch failed">>), Settled(answer))
     ELSE IF ~answer.ok
     THEN Return(ResultError(<<"Failed to geocode location">>), Settled(answer))
     ELSE IF answer.json = Throws
     THEN Return(ResultError(<<"Unexpected token">>), Settled(answer))
     ELSE IF NoMatches(answer.json)
     THEN Return(ResultError(<<"Location not found: \"", handlerArgs.location.v, "\"">>),
                 Settled(answer))
     ELSE IF Len(answer.json.results.v) = 0
     THEN Return(ResultError(<<"Cannot read properties of undefined">>), Settled(answer))
     ELSE Await("forecastPending",
                Append(Settled(answer),
                       Call("fetch",
                            weatherUrl(answer.json.results.v[1], handlerArgs.units),
                            Undefined)))
  /\ UNCHANGED <<chat, handlerArgs>>

\* the forecast answer arrives and is formatted
weatherHandler_forecast(answer) ==
  /\ pc = "forecastPending"
  /\ IF answer = Throws
     THEN Return(ResultError(<<"fetch failed">>), Settled(answer))
     ELSE IF ~answer.ok
     THEN Return(ResultError(<<"Failed to fetch weather data">>), Settled(answer))
     ELSE IF answer.json = Throws
     THEN Return(ResultError(<<"Unexpected token">>), Settled(answer))
     ELSE Return(ResultOk(WeatherReport(effects[1].answer.json.results.v[1],
                                        answer.json.current, handlerArgs.units)),
                 Settled(answer))
  /\ UNCHANGED <<chat, handlerArgs>>

\* ---- calculator.ts: calculator -------------------------------------------
\* An expression is the sequence of its characters.

Letters ==
  {"a", "b", "c", "d", "e", "f", "g", "h", "i", "j", "k", "l", "m", "n", "o", "p", "q",
   "r", "s", "t", "u", "v", "w", "x", "y", "z",
   "A", "B", "C", "D", "E", "F", "G", "H", "I", "J", "K", "L", "M", "N", "O", "P", "Q",
   "R", "S", "T", "U", "V", "W", "X", "Y", "Z"}

\* the character class [0-9+\-*/().%\s,Math.sqrtincoablgEPI]
AllowedCharacters ==
  {"0", "1", "2", "3", "4", "5", "6", "7", "8", "9", "+", "-", "*", "/", "(", ")", ".",
   "%", " ", ",", "M", "a", "t", "h", "s", "q", "r", "i", "n", "c", "o", "b", "l", "g",
   "E", "P", "I"}

\* String.prototype.replace with a global pattern that matches any of the
\* strings in pats
RECURSIVE ReplaceAll(_, _, _)
ReplaceAll(seq, pats, rep) ==
  IF seq = <<>> THEN <<>>
  ELSE IF \E p \in pats : startsWith(seq, p)
  THEN rep \o ReplaceAll(SubSeq(seq, Len(CHOOSE p \in pats : startsWith(seq, p)) + 1,
                                Len(seq)),
                         pats, rep)
  ELSE <<Head(seq)>> \o ReplaceAll(Tail(seq), pats, rep)

\* .replace(/e(?![a-z])/gi, 'Math.E')
RECURSIVE ReplaceE(_)
ReplaceE(seq) ==
  IF seq = <<>> THEN <<>>
  ELSE IF Head(seq) \in {"e", "E"} /\ (Len(seq) = 1 \/ seq[2] \notin Letters)
  THEN <<"M", "a", "t", "h", ".", "E">> \o ReplaceE(Tail(seq))
  ELSE <<Head(seq)>> \o ReplaceE(Tail(seq))

MathName(name) == <<"M", "a", "t", "h", ".">> \o name

ReplaceName(seq, name) == ReplaceAll(seq, {name}, MathName(name))

\* the notation rewriting that opens safeEvaluate
Rewritten(expression) ==
  ReplaceE(
   ReplaceAll(
    ReplaceName(ReplaceName(ReplaceName(ReplaceName(ReplaceName(ReplaceName(
     ReplaceName(ReplaceName(ReplaceName(
      ReplaceAll(expression, {<<"^">>}, <<"*", "*">>),
      <<"s", "q", "r", "t">>), <<"s", "i", "n">>), <<"c", "o", "s">>),
      <<"t", "a", "n">>), <<"l", "o", "g">>), <<"a", "b", "s">>),
      <<"r", "o", "u", "n", "d">>), <<"f", "l", "o", "o", "r">>), <<"c", "e", "i", "l">>),
    {<<"p", "i">>, <<"P", "I">>, <<"P", "i">>, <<"p", "I">>},
    <<"M", "a", "t", "h", ".", "P", "I">>))

\* the regular expression test of the validation
PassesAllowList(expr) == expr # <<>> /\ \A i \in 1..Len(expr) : expr[i] \in AllowedCharacters

\* JavaScript values
Num(text) == [k |-> "number", v |-> text, finite |-> TRUE]
NotFinite(text) == [k |-> "number", v |-> text, finite |-> FALSE]
Thrown(message) == [k |-> "throws", v |-> message, finite |-> FALSE]

\* the expressions followed, each with what new Function(`"use strict";
\* return (<rewritten>)`)() gives for it
Expressions ==
  << [text |-> <<"2", " ", "+", " ", "2">>, value |-> Num("4")],
     [text |-> <<"1", "5", " ", "*", " ", "7">>, value |-> Num("105")],
     [text |-> <<"2", "^", "3">>, value |-> Num("8")],
     [text |-> <<"s", "q", "r", "t", "(", "1", "6", ")">>, value |-> Num("4")],
     [text |-> <<"p", "i">>, value |-> Num("3.141592653589793")],
     [text |-> <<"2", "*", "e">>, value |-> Num("5.43656365691809")],
     [text |-> <<"r", "o", "u", "n", "d", "(", "2", ".", "5", ")">>, value |-> Num("3")],
     [text |-> <<"f", "l", "o", "o", "r", "(", "2", ".", "5", ")">>, value |-> Num("2")],
     [text |-> <<"c", "e", "i", "l", "(", "2", ".", "5", ")">>, value |-> Num("3")],
     [text |-> <<"1", "/", "0">>, value |-> NotFinite("Infinity")],
     [text |-> <<"0", "/", "0">>, value |-> NotFinite("NaN")],
     [text |-> <<"s", "i", "n">>, value |-> [k |-> "function", v |-> "", finite |-> FALSE]],
     [text |-> <<"2", " ", "+">>, value |-> Thrown(<<"Unexpected token ')'">>)],
     [text |-> <<"1", "e", "3">>, value |-> Thrown(<<"Invalid or unexpected token">>)],
     [text |-> <<"r", "e", "q", "u", "i", "r", "e", "(", "'", "f", "s", "'", ")">>,
      value |-> Thrown(<<"require is not defined">>)] >>

\* the value of the rewritten expression expr
Evaluate(expr) ==
  Expressions[CHOOSE i \in 1..Len(Expressions) : Rewritten(Expressions[i].text) = expr].value

CalculatorCalls ==
  { [tool |-> "calculator", expression |-> e] :
      e \in {Undefined, Str(<<>>)} \cup {Str(Expressions[i].text) : i \in 1..Len(Expressions)} }

\* calculatorHandler with safeEvaluate; nothing in it waits
calculatorHandler ==
  /\ pc = "handlerCalled"
  /\ handlerArgs.tool = "calculator"
  /\ IF Falsy(handlerArgs.expression)
     THEN Return(ResultError(<<"No expression provided">>), effects)
     ELSE IF ~PassesAllowList(Rewritten(handlerArgs.expression.v))
     THEN Return(ResultError(<<"Invalid characters in expression">>), effects)
     ELSE IF Evaluate(Rewritten(handlerArgs.expression.v)).k = "throws"
     THEN Return(ResultError(Evaluate(Rewritten(handlerArgs.expression.v)).v),
                 <<[Call("evaluate", Rewritten(handlerArgs.expression.v), Undefined)
                     EXCEPT !.answer = Throws]>>)
     ELSE IF ~Evaluate(Rewritten(handlerArgs.expression.v)).finite
     THEN Return(ResultError(<<"Expression did not evaluate to a valid number">>),
                 <<[Call("evaluate", Rewritten(handlerArgs.expression.v), Undefined)
                     EXCEPT !.answer = Evaluate(Rewritten(handlerArgs.expression.v))]>>)
     ELSE Return(ResultOk(<<handlerArgs.expression.v, " = ",
                            Evaluate(Rewritten(handlerArgs.expression.v)).v>>),
                 <<[Call("evaluate", Rewritten(handlerArgs.expression.v), Undefined)
                     EXCEPT !.answer = Evaluate(Rewritten(handlerArgs.expression.v))]>>)
  /\ UNCHANGED <<chat, handlerArgs>>

\* ---- datetime.ts: get_current_datetime -----------------------------------

\* the zone names Intl accepts (two of them stand for all), and the zone of
\* the server
IanaZones == {<<"Europe/London">>, <<"UTC">>}
ServerZone == <<"UTC">>

DateTimeCalls ==
  { [tool |-> "get_current_datetime", timezone |-> z, format |-> f] :
      z \in {Undefined, Str(<<>>), Str(<<"Europe/London">>), Str(<<"Mars/Olympus">>)},
      f \in {Undefined, Str(<<"iso">>), Str(<<"readable">>), Str(<<"date_only">>),
             Str(<<"time_only">>), Str(<<"unix">>), Str(<<"weekly">>)} }

\* (args.timezone as string) || Intl.DateTimeFormat().resolvedOptions().timeZone
timezone(args) == IF Falsy(args.timezone) THEN ServerZone ELSE args.timezone.v

\* (args.format as string) || 'readable'
format(args) == IF Falsy(args.format) THEN <<"readable">> ELSE args.format.v

\* the switch: every branch but unix hands the zone to Intl, whose
\* toLocale...String throws a RangeError for a zone it does not know
FormatNow(fmt, zone) ==
  IF fmt = <<"unix">> THEN Str(<<"seconds since the epoch">>)
  ELSE IF zone \notin IanaZones THEN Thrown(<<"Invalid time zone specified: ">> \o zone)
  ELSE IF fmt = <<"iso">> THEN Str(<<"now in ", zone, " as sv-SE, blank to T", "Z">>)
  ELSE IF fmt = <<"date_only">> THEN Str(<<"now in ", zone, " as en-US date">>)
  ELSE IF fmt = <<"time_only">> THEN Str(<<"now in ", zone, " as en-US time">>)
  ELSE Str(<<"now in ", zone, " as en-US date and time with zone name">>)

\* dateTimeHandler; nothing in it waits
dateTimeHandler ==
  /\ pc = "handlerCalled"
  /\ handlerArgs.tool = "get_current_datetime"
  /\ IF FormatNow(format(handlerArgs), timezone(handlerArgs)).k = "throws"
     THEN Return(ResultError(FormatNow(format(handlerArgs), timezone(handlerArgs)).v),
                 effects)
     ELSE Return(ResultOk(<<"Current date/time (", timezone(handlerArgs), "): ",
                            FormatNow(format(handlerArgs), timezone(handlerArgs)).v>>),
                 effects)
  /\ UNCHANGED <<chat, handlerArgs>>

\* ---- calculator.ts: execute_code -----------------------------------------

Number(n) == [k |-> "number", v |-> n]

\* a script by what running it does: run is "returns" (the function returns
\* value after ms of synchronous work), "throws", "loops" (it never
\* returns), "promise" (it returns at once a promise that fulfils with
\* value after ms) or "pending" (a promise that never settles)
Script(run, ms, value) == [k |-> "str", v |-> <<"script">>, run |-> run, ms |-> ms, value |-> value]

ScriptDurations == {1, 6000, 31000}

Scripts ==
  {Script("returns", ms, value) : ms \in ScriptDurations, value \in {Undefined, Number(42)}}
    \cup {Script("promise", ms, Number(42)) : ms \in ScriptDurations}
    \cup {Script("throws", 1, Undefined), Script("loops", 0, Undefined),
          Script("pending", 0, Undefined)}

CodeExecutionCalls ==
  { [tool |-> "execute_code", code |-> c, timeout_ms |-> t] :
      c \in {Undefined, Str(<<>>)} \cup Scripts,
      t \in {Undefined, Number(0), Number(1000), Number(60000)} }

DEFAULT_TIMEOUT_MS == 5000
MAX_TIMEOUT_MS == 30000

\* Math.min((args.timeout_ms as number) || 5000, 30000)
timeoutMs(args) ==
  IF Falsy(args.timeout_ms) THEN DEFAULT_TIMEOUT_MS
  ELSE IF args.timeout_ms.v < MAX_TIMEOUT_MS THEN args.timeout_ms.v
  ELSE MAX_TIMEOUT_MS

\* Promise.race([executionPromise, timeoutPromise]) once the executor of
\* executionPromise has run the script: a returned value or a throw has
\* settled executionPromise already, whatever time it took, and the timer
\* callback can only run afterwards; the timer wins against a returned
\* promise that has not settled when it fires
TimerWins(ran, limit) ==
  \/ ran.k = "pending"
  \/ ran.k = "promise" /\ ran.ms >= limit

\* the formatted output, with no console line captured
Output(value) ==
  IF value = Undefined
  THEN <<"Code executed successfully (no output)">>
  ELSE <<"Result: ", value.v>>

\* codeExecutionHandler up to the call of the script: the timer is set
\* first (173-175), then the executor calls the script (177-179)
codeExecutionHandler ==
  /\ pc = "handlerCalled"
  /\ handlerArgs.tool = "execute_code"
  /\ IF Falsy(handlerArgs.code)
     THEN Return(ResultError(<<"No code provided">>), effects)
     ELSE Await("scriptRunning",
                <<Call("setTimeout", timeoutMs(handlerArgs), Undefined),
                  Call("run", handlerArgs.code.v, Undefined)>>)
  /\ UNCHANGED <<chat, handlerArgs>>

\* the script comes back from its synchronous part (a script that loops
\* never does, and the handler stays here)
codeExecutionHandler_run ==
  /\ pc = "scriptRunning"
  /\ handlerArgs.code.run # "loops"
  /\ Await("racePending",
           Settled([k |-> handlerArgs.code.run, ms |-> handlerArgs.code.ms,
                    value |-> handlerArgs.code.value]))
  /\ UNCHANGED <<chat, handlerArgs>>

\* the race settles and the handler returns
codeExecutionHandler_race ==
  /\ pc = "racePending"
  /\ IF effects[2].answer.k = "throws"
     THEN Return(ResultError(<<"script error">>), effects)
     ELSE IF TimerWins(effects[2].answer, effects[1].target)
     THEN Return(ResultError(<<"Execution timed out">>),
                 [effects EXCEPT ![1].answer = [k |-> "fired"]])
     ELSE Return(ResultOk(Output(effects[2].answer.value)), effects)
  /\ UNCHANGED <<chat, handlerArgs>>

\* ---- file-operations.ts: generate_image ----------------------------------

MAX_IMAGE_SIDE == 1024
DEFAULT_IMAGE_SIDE == 512

\* env is the value of IMAGE_GENERATION_API_URL, <<>> when unset or empty
ImageApiEnvs == {<<>>, <<"http://sd:7860">>}

ImageCalls ==
  { [tool |-> "generate_image", env |-> env, prompt |-> p, width |-> w, style |-> s] :
      env \in ImageApiEnvs,
      p \in {Undefined, Str(<<>>), Str(<<"a cat">>)},
      w \in {Undefined, Number(2048)},
      s \in {Undefined, Str(<<"anime">>), Str(<<"cubist">>)} }

ImageAnswers ==
  { Throws,
    [k |-> "response", ok |-> FALSE],
    [k |-> "response", ok |-> TRUE, json |-> Throws],
    [k |-> "response", ok |-> TRUE, json |-> [images |-> Undefined]],
    [k |-> "response", ok |-> TRUE, json |-> [images |-> List(<<>>)]],
    [k |-> "response", ok |-> TRUE, json |-> [images |-> List(<<"base64 data">>)]] }

\* the opening tests without the one on the endpoint
ImageRefusal_promptOnly(args) ==
  IF Falsy(args.prompt) THEN "no prompt" ELSE "go"

\* the two tests that open the handler, in their order (237-250)
ImageRefusal(args) ==
  IF Falsy(args.prompt) THEN "no prompt"
  ELSE IF args.env = <<>> THEN "not configured"
  ELSE "go"

NotConfiguredError ==
  <<"Image generation is not configured. Please set the IMAGE_GENERATION_API_URL environment variable to point to a Stable Diffusion API (e.g., Automatic1111 or ComfyUI).">>

stylePrompt(style) ==
  IF style = Str(<<"anime">>) THEN "anime style, vibrant colors, clean lines, studio quality"
  ELSE "artistic, beautiful composition, masterpiece, best quality"

Side(val) ==
  IF Falsy(val) THEN DEFAULT_IMAGE_SIDE
  ELSE IF val.v < MAX_IMAGE_SIDE THEN val.v ELSE MAX_IMAGE_SIDE

\* imageGenerationHandler up to the fetch
imageGenerationHandler ==
  /\ pc = "handlerCalled"
  /\ handlerArgs.tool = "generate_image"
  /\ IF ImageRefusal(handlerArgs) = "no prompt"
     THEN Return(ResultError(<<"No prompt provided">>), effects)
     ELSE IF ImageRefusal(handlerArgs) = "not configured"
     THEN Return(ResultError(NotConfiguredError), effects)
     ELSE Await("imagePending",
                Append(effects,
                       Call("fetch", handlerArgs.env \o <<"/sdapi/v1/txt2img">>,
                            [prompt |-> <<handlerArgs.prompt.v, ", ",
                                          stylePrompt(handlerArgs.style)>>,
                             width |-> Side(handlerArgs.width)])))
  /\ UNCHANGED <<chat, handlerArgs>>

\* the answer of the image service arrives and is read
imageGenerationHandler_fetch(answer) ==
  /\ pc = "imagePending"
  /\ IF answer = Throws
     THEN Return(ResultError(<<"fetch failed">>), Settled(answer))
     ELSE IF ~answer.ok
     THEN Return(ResultError(<<"Image API returned ">>), Settled(answer))
     ELSE IF answer.json = Throws
     THEN Return(ResultError(<<"Unexpected token">>), Settled(answer))
     ELSE IF Falsy(answer.json.images) \/ Len(answer.json.images.v) = 0
     THEN Return(ResultError(<<"No image was generated">>), Settled(answer))
     ELSE Return(ResultOk(<<"image", "base64", answer.json.images.v[1],
                            effects[1].data.prompt, effects[1].data.width>>),
                 Settled(answer))
  /\ UNCHANGED <<chat, handlerArgs>>

\* ---- one call of one handler ----------------------------------------------

HandlerCalls == FileReadCalls \cup FileWriteCalls \cup WeatherCalls \cup CalculatorCalls
                \cup DateTimeCalls \cup CodeExecutionCalls
                \cup ImageCalls

HandlerInit ==
  /\ ChatIdle
  /\ pc = "handlerCalled"
  /\ handlerArgs \in HandlerCalls
  /\ effects = <<>>
  /\ handlerResult = <<>>

HandlerNext ==
  \/ fileReadHandler
  \/ \E answer \in StatAnswers : fileReadHandler_stat(answer)
  \/ \E answer \in ReadAnswers : fileReadHandler_readFile(answer)
  \/ fileWriteHandler
  \/ \E answer \in VoidAnswers : fileWriteHandler_mkdir(answer)
  \/ \E answer \in VoidAnswers : fileWriteHandler_write(answer)
  \/ weatherHandler
  \/ \E answer \in GeoAnswers : weatherHandler_geocode(answer)
  \/ \E answer \in ForecastAnswers : weatherHandler_forecast(answer)
  \/ calculatorHandler
  \/ dateTimeHandler
  \/ codeExecutionHandler
  \/ codeExecutionHandler_run
  \/ codeExecutionHandler_race
  \/ imageGenerationHandler
  \/ \E answer \in ImageAnswers : imageGenerationHandler_fetch(answer)

HandlerSpec == HandlerInit /\ [][HandlerNext]_vars

\* ---- properties of the tool handlers --------------------------------------

Returned == pc = "handlerReturned"

IsFileCall == handlerArgs.tool \in {"read_file", "write_file"}

\* the path is a string and its resolution starts with no allowed directory
ResolvesOutside ==
  /\ IsFileCall
  /\ handlerArgs.path.k = "str"
  /\ \A i \in 1..Len(ALLOWED_DIRECTORIES(handlerArgs.env)) :
       ~startsWith(resolve(handlerArgs.path.v), ALLOWED_DIRECTORIES(handlerArgs.env)[i])

HasOp(ops) == \E i \in 1..Len(effects) : effects[i].op \in ops

\* C21 as stated: a read_file or write_file call whose path resolves outside
\* every allowed directory makes no file-system call and returns
\* success=false with the access-denied error.
C21_OutsideDenied ==
  ResolvesOutside =>
    /\ effects = <<>>
    /\ Returned =>
         /\ ~handlerResult.success
         /\ handlerResult.error = AccessDenied(handlerArgs.env)

\* C21, amended: a read_file or write_file call whose path resolves outside
\* every allowed directory makes no file-system call and returns
\* success=false; the error is the access-denied one whenever the path is not
\* the empty string and, for write_file, a content was given (otherwise it is
\* the missing-path or the missing-content error).
C21_OutsideRefused ==
  ResolvesOutside =>
    /\ effects = <<>>
    /\ Returned =>
         /\ ~handlerResult.success
         /\ handlerResult.error =
              IF handlerArgs.path.v = <<>>
              THEN <<"No file path provided">>
              ELSE IF handlerArgs.tool = "write_file"
                      /\ handlerArgs.content.k \in {"undefined", "null"}
              THEN <<"No content provided">>
              ELSE AccessDenied(handlerArgs.env)

\* a path that leaves /tmp through ".." has been refused
C21_Witness ==
  /\ Returned
  /\ ResolvesOutside
  /\ handlerArgs.path = Str(<<"/", "tmp", "/", ".", ".", "/", "etc", "/", "passwd">>)
  /\ handlerResult.error = AccessDenied(handlerArgs.env)

\* C22: the size limits come before the data operation: readFile is called
\* only after a stat that reported at most 5MB, a stat reporting more ends
\* the call with the too-large error, and a write_file whose content is
\* larger than 1MB fails with no mkdir, writeFile or appendFile.
C22_SizeLimits ==
  /\ \A i \in 1..Len(effects) :
       /\ effects[i].op = "readFile" =>
            /\ i > 1
            /\ effects[i - 1].op = "stat"
            /\ effects[i - 1].answer.k = "ok"
            /\ effects[i - 1].answer.size <= MAX_READ_SIZE
       /\ (effects[i].op = "stat" /\ effects[i].answer.k = "ok"
           /\ effects[i].answer.size > MAX_READ_SIZE) =>
            /\ i = Len(effects)
            /\ Returned
            /\ ~handlerResult.success
            /\ handlerResult.error[1] = "File too large ("
  /\ (handlerArgs.tool = "write_file" /\ handlerArgs.content.k = "str"
      /\ handlerArgs.content.bytes > MAX_WRITE_SIZE) =>
       /\ effects = <<>>
       /\ Returned => ~handlerResult.success

\* the geocoding answer was a readable body with no match in it
GeocodedNoMatch ==
  /\ handlerArgs.tool = "get_weather"
  /\ Len(effects) >= 1
  /\ effects[1].answer.k = "response"
  /\ effects[1].answer.ok
  /\ effects[1].answer.json # Throws
  /\ \/ effects[1].answer.json.results = Undefined
     \/ effects[1].answer.json.results = List(<<>>)

\* C23: when geocoding answers with no match, get_weather returns
\* success=false with 'Location not found: "<location>"' and makes no
\* forecast request; a forecast request is only ever made after a geocoding
\* answer with at least one match.
C23_NoMatchNoForecast ==
  handlerArgs.tool = "get_weather" =>
    /\ GeocodedNoMatch =>
         /\ Len(effects) = 1
         /\ Returned
         /\ ~handlerResult.success
         /\ handlerResult.error = <<"Location not found: \"", handlerArgs.location.v, "\"">>
    /\ Len(effects) <= 2
    /\ Len(effects) = 2 =>
         /\ effects[1].answer.k = "response"
         /\ effects[1].answer.ok
         /\ effects[1].answer.json # Throws
         /\ effects[1].answer.json.results.k = "list"
         /\ Len(effects[1].answer.json.results.v) >= 1
         /\ effects[2].target[1] = "https://api.open-meteo.com/v1/forecast?latitude="

\* geocoding answered with an empty result list and the call was refused
C23_Witness ==
  /\ Returned
  /\ GeocodedNoMatch
  /\ effects[1].answer.json.results = List(<<>>)
  /\ handlerArgs.location = Str(<<"Atlantis">>)
  /\ ~handlerResult.success

\* the expressions of the grammar the tool announces (arithmetic, ^,
\* parentheses, sqrt sin cos tan log abs round floor ceil) whose value is a
\* finite number
ValidExpressions ==
  { <<"2", " ", "+", " ", "2">>,
    <<"1", "5", " ", "*", " ", "7">>,
    <<"2", "^", "3">>,
    <<"s", "q", "r", "t", "(", "1", "6", ")">>,
    <<"r", "o", "u", "n", "d", "(", "2", ".", "5", ")">>,
    <<"f", "l", "o", "o", "r", "(", "2", ".", "5", ")">>,
    <<"c", "e", "i", "l", "(", "2", ".", "5", ")">> }

ExpressionValue(text) ==
  Expressions[CHOOSE i \in 1..Len(Expressions) : Expressions[i].text = text].value

Evaluated == HasOp({"evaluate"})

\* C24: the calculator tests the expression against the character allow-list
\* before evaluating anything: an expression with a disallowed character
\* fails and is never evaluated, an expression whose value is not a finite
\* number fails, and a valid expression succeeds with
\* '<expression> = <value>', the expression being the caller's text.
C24_Calculator ==
  (Returned /\ handlerArgs.tool = "calculator" /\ handlerArgs.expression.k = "str"
   /\ handlerArgs.expression.v # <<>>) =>
    /\ (\E i \in 1..Len(Rewritten(handlerArgs.expression.v)) :
          Rewritten(handlerArgs.expression.v)[i] \notin AllowedCharacters) =>
         ~handlerResult.success /\ ~Evaluated
    /\ ~ExpressionValue(handlerArgs.expression.v).finite => ~handlerResult.success
    /\ handlerArgs.expression.v \in ValidExpressions =>
         /\ handlerResult.success
         /\ handlerResult.result =
              <<handlerArgs.expression.v, " = ", ExpressionValue(handlerArgs.expression.v).v>>

\* C25: whatever the format (iso, readable, date_only, time_only, unix),
\* get_current_datetime called with a timezone that is no IANA zone returns
\* success=false with an error; it never returns a success.
C25_InvalidZoneFails ==
  (Returned /\ handlerArgs.tool = "get_current_datetime"
   /\ handlerArgs.timezone.k = "str" /\ handlerArgs.timezone.v # <<>>
   /\ handlerArgs.timezone.v \notin IanaZones) =>
    /\ ~handlerResult.success
    /\ handlerResult.hasError

\* the script needs more time than the effective timeout
OverTime ==
  /\ handlerArgs.tool = "execute_code"
  /\ handlerArgs.code.k = "str"
  /\ handlerArgs.code.v # <<>>
  /\ \/ handlerArgs.code.run \in {"loops", "pending"}
     \/ handlerArgs.code.run \in {"returns", "promise"}
        /\ handlerArgs.code.ms > timeoutMs(handlerArgs)

\* C26: a script that takes longer than the effective timeout (timeout_ms,
\* default 5000, at most 30000) makes execute_code return success=false with
\* the timeout error, synchronous scripts included; no script that ran past
\* its timeout returns success.
C26_TimeoutEnforced ==
  (Returned /\ OverTime) =>
    /\ ~handlerResult.success
    /\ handlerResult.error = <<"Execution timed out">>

Unconfigured == handlerArgs.tool = "generate_image" /\ handlerArgs.env = <<>>

\* C27 as stated: with no image endpoint configured, every generate_image
\* call, whatever its arguments, makes no network request and returns
\* success=false with the not-configured error.
C27_AlwaysNotConfigured ==
  Unconfigured =>
    /\ effects = <<>>
    /\ Returned =>
         /\ ~handlerResult.success
         /\ handlerResult.error = NotConfiguredError

\* C27, amended: with no image endpoint configured, every generate_image
\* call makes no network request and returns success=false; the error is
\* the not-configured one whenever a prompt was given, and 'No prompt
\* provided' otherwise.
C27_Unconfigured ==
  Unconfigured =>
    /\ effects = <<>>
    /\ Returned =>
         /\ ~handlerResult.success
         /\ handlerResult.error =
              IF handlerArgs.prompt.k = "str" /\ handlerArgs.prompt.v # <<>>
              THEN NotConfiguredError
              ELSE <<"No prompt provided">>

\* a call with a prompt was refused for want of an endpoint
C27_Witness ==
  /\ Returned
  /\ Unconfigured
  /\ handlerArgs.prompt = Str(<<"a cat">>)
  /\ handlerResult.error = NotConfiguredError

\* ---------------------------------------------------------------------------
\* The title endpoint (src/app/api/chat/title/route.ts, and its earlier
\* revision src/unnamed/part_005), followed through one request. A text is
\* the sequence of its pieces: single characters, and whole words and tags.
\* ---------------------------------------------------------------------------

MaxTitleTokens == 3
MAX_TITLE_WORDS == 6
MAX_TITLE_LENGTH == 60
FALLBACK_WORDS == 5

Quotes == {"\"", "'"}
SentencePunctuation == {"?", "!", ".", ","}
TitlePrefixes == {"Title:", "title:", "TITLE:"}

\* the index of the first </think> after the <think> that opens seq
ThinkClose(seq) ==
  CHOOSE j \in 2..Len(seq) :
    seq[j] = "</think>" /\ \A i \in 2..(j - 1) : seq[i] # "</think>"

\* .replace(/<think>[\s\S]*?<\/think>/g, '')
RECURSIVE removeThinking(_)
removeThinking(seq) ==
  IF seq = <<>> THEN <<>>
  ELSE IF Head(seq) = "<think>" /\ \E j \in 2..Len(seq) : seq[j] = "</think>"
  THEN removeThinking(SubSeq(seq, ThinkClose(seq) + 1, Len(seq)))
  ELSE <<Head(seq)>> \o removeThinking(Tail(seq))

StripLeadingQuote(seq) == IF seq # <<>> /\ Head(seq) \in Quotes THEN Tail(seq) ELSE seq

StripTrailingQuote(seq) ==
  IF seq # <<>> /\ seq[Len(seq)] \in Quotes THEN SubSeq(seq, 1, Len(seq) - 1) ELSE seq

\* .replace(/^["']|["']$/g, ''): one quote off the start, one off the end
stripSurroundingQuotes(seq) == StripTrailingQuote(StripLeadingQuote(seq))

\* .replace(/^Title:\s*/i, '')
stripTitlePrefix(seq) ==
  IF seq # <<>> /\ Head(seq) \in TitlePrefixes THEN trimStart(Tail(seq)) ELSE seq

\* .replace(/['"]/g, '')
RECURSIVE Without(_, _)
Without(seq, pieces) ==
  IF seq = <<>> THEN <<>>
  ELSE IF Head(seq) \in pieces THEN Without(Tail(seq), pieces)
  ELSE <<Head(seq)>> \o Without(Tail(seq), pieces)

\* .replace(/\n.*/g, ''): every line but the first goes
firstLine(seq) == split(seq, "\n")[1]

\* .replace(/[.!?]$/, '')
stripTrailingPunctuation(seq) ==
  IF seq # <<>> /\ seq[Len(seq)] \in {".", "!", "?"}
  THEN SubSeq(seq, 1, Len(seq) - 1) ELSE seq

\* .split(/\s+/): a leading or trailing run of whitespace leaves an empty
\* string at that end
RECURSIVE SplitWords(_, _)
SplitWords(seq, piece) ==
  IF seq = <<>> THEN <<piece>>
  ELSE IF Head(seq) \in {" ", "\n"}
  THEN <<piece>> \o SplitWords(trimStart(Tail(seq)), <<>>)
  ELSE SplitWords(Tail(seq), Append(piece, Head(seq)))

\* .slice(0, n)
slice(seq, n) == SubSeq(seq, 1, IF Len(seq) < n THEN Len(seq) ELSE n)

\* .join(' ')
RECURSIVE join(_)
join(words) ==
  IF words = <<>> THEN <<>>
  ELSE IF Len(words) = 1 THEN words[1]
  ELSE words[1] \o <<" ">> \o join(Tail(words))

\* the word cap (81-84)
capWords(title) ==
  IF Len(SplitWords(title, <<>>)) > MAX_TITLE_WORDS
  THEN join(slice(SplitWords(title, <<>>), MAX_TITLE_WORDS))
  ELSE title

\* the cleaning of the model's answer: route.ts 71-84, part_005 69-82
clean(rev, raw) ==
  IF rev = "route"
  THEN capWords(trim(firstLine(stripSurroundingQuotes(stripTitlePrefix(
         stripSurroundingQuotes(removeThinking(trim(raw))))))))
  ELSE capWords(trim(stripTrailingPunctuation(firstLine(Without(
         stripTitlePrefix(stripSurroundingQuotes(trim(raw))), Quotes)))))

\* String.length
RECURSIVE length(_)
length(seq) == IF seq = <<>> THEN 0 ELSE Len(Head(seq)) + length(Tail(seq))

\* messages.find((m) => m.role === 'user')?.content || ''
RECURSIVE firstUserMessage(_)
firstUserMessage(msgs) ==
  IF msgs = <<>> THEN <<>>
  ELSE IF msgs[1].role = "user"
  THEN (IF Falsy(msgs[1].content) THEN <<>> ELSE msgs[1].content.v)
  ELSE firstUserMessage(Tail(msgs))

keyWords(msgs) ==
  join(slice(SplitWords(Without(firstUserMessage(msgs), SentencePunctuation), <<>>),
             FALLBACK_WORDS))

NewChat == <<"New", " ", "Chat">>

\* the fallback (87-96)
finalTitle(title, msgs) ==
  IF title = <<>> \/ length(title) > MAX_TITLE_LENGTH
  THEN (IF keyWords(msgs) = <<>> THEN NewChat ELSE keyWords(msgs))
  ELSE title

\* NextResponse.json(body, {status})
Response(status, title, error) == [status |-> status, title |-> title, error |-> error]

\* the catch block with the error passed on as a failed request
Absorbed_fails(message) == Response(500, Undefined, Str(message))

\* the catch block (102-111)
Absorbed(message) == Response(200, Str(NewChat), Str(message))

LongWord == "Supercalifragilisticexpialidocious-and-then-some-more-letters-on-top"

TitleAlphabet == {" ", "\n", "\"", "Title:", "<think>", "</think>", ".", "Cats"}

\* what the model may answer: every text of up to MaxTitleTokens pieces,
\* and some longer ones
RawTitles ==
  UNION {[1..n -> TitleAlphabet] : n \in 0..MaxTitleTokens}
    \cup { <<"Title:", " ", "Title:", " ", "Cats">>,
           <<"\"", "\"", "\"", "Cats", "\"", "\"", "\"">>,
           <<"<think>", "hm", "</think>", "\n", "Cats", " ", "and", " ", "Dogs">>,
           <<"a", " ", "b", " ", "c", " ", "d", " ", "e", " ", "f", " ", "g">>,
           <<"a", " ", "b", " ", "c", " ", "d", " ", "e", " ", "f", "\"", " ", "g">>,
           <<LongWord>>,
           <<"Cats", ".", ".">> }

ChatAnswers ==
  {Throws, [k |-> "ok", content |-> Undefined]}
    \cup {[k |-> "ok", content |-> Str(raw)] : raw \in RawTitles}

TitleMessage(role, content) == [role |-> role, content |-> content]

\* the request bodies followed: no JSON, no messages, messages that are no
\* array or an empty one, and conversations
TitleBodies ==
  { Throws,
    [messages |-> Undefined],
    [messages |-> [k |-> "object"]],
    [messages |-> List(<<>>)],
    [messages |-> List(<<TitleMessage("user", Undefined)>>)],
    [messages |-> List(<<TitleMessage("assistant", Str(<<"Hello">>))>>)],
    [messages |-> List(<<TitleMessage("user", Str(<<" ">>))>>)],
    [messages |-> List(<<TitleMessage("user", Str(<<"?", "!">>))>>)],
    [messages |-> List(<<TitleMessage("user", Str(<<" ", "hello", " ", "world">>))>>)],
    [messages |-> List(<<TitleMessage("assistant", Str(<<"Hello">>)),
                         TitleMessage("user",
                           Str(<<"How", " ", "do", " ", "I", " ", "bake", ",", " ", "bread",
                                 " ", "at", " ", "home", "?">>))>>)] }

TitleRequests ==
  {[revision |-> rev, body |-> body] : rev \in {"route", "part_005"}, body \in TitleBodies}

TitleInit ==
  /\ ChatIdle
  /\ pc = "titleCalled"
  /\ handlerArgs \in TitleRequests
  /\ effects = <<>>
  /\ handlerResult = <<>>

\* some message has no content, so msg.content.length throws (33)
ContextThrows(msgs) == \E i \in 1..Len(msgs) : msgs[i].content.k # "str"

\* POST up to the model call
titlePOST ==
  /\ pc = "titleCalled"
  /\ IF handlerArgs.body = Throws
     THEN Return(Absorbed(<<"Unexpected end of JSON input">>), effects)
     ELSE IF handlerArgs.body.messages.k # "list" \/ Len(handlerArgs.body.messages.v) = 0
     THEN Return(Response(400, Undefined, Str(<<"Messages array is required">>)), effects)
     ELSE IF ContextThrows(handlerArgs.body.messages.v)
     THEN Return(Absorbed(<<"Cannot read properties of undefined (reading 'length')">>),
                 effects)
     ELSE Await("titleChatPending",
                Append(effects, Call("ollama.chat", handlerArgs.body.messages.v, Undefined)))
  /\ UNCHANGED <<chat, handlerArgs>>

\* the model call settles; the title is cleaned and returned
titlePOST_chat(answer) ==
  /\ pc = "titleChatPending"
  /\ IF answer = Throws
     THEN Return(Absorbed(<<"fetch failed">>), Settled(answer))
     ELSE IF answer.content.k # "str"
     THEN Return(Absorbed(<<"Cannot read properties of undefined (reading 'trim')">>),
                 Settled(answer))
     ELSE Return(Response(200,
                          Str(finalTitle(clean(handlerArgs.revision, answer.content.v),
                                         handlerArgs.body.messages.v)),
                          Undefined),
                 Settled(answer))
  /\ UNCHANGED <<chat, handlerArgs>>

TitleNext ==
  \/ titlePOST
  \/ \E answer \in ChatAnswers : titlePOST_chat(answer)

TitleSpec == TitleInit /\ [][TitleNext]_vars

\* ---- properties of the title endpoint --------------------------------------

\* the model answered with a text
ModelAnswered ==
  /\ pc = "handlerReturned"
  /\ Len(effects) = 1
  /\ effects[1].op = "ollama.chat"
  /\ effects[1].answer.k = "ok"
  /\ effects[1].answer.content.k = "str"

RawTitle == effects[1].answer.content.v

Cleaned == clean(handlerArgs.revision, RawTitle)

\* C28: cleaning is idempotent: cleaning the cleaned title again changes
\* nothing, whatever the model's answer was.
C28_CleanIdempotent ==
  ModelAnswered => clean(handlerArgs.revision, Cleaned) = Cleaned

\* the words of a text: its maximal runs of pieces that are no whitespace
Words(text) == SelectSeq(SplitWords(text, <<>>), LAMBDA w : w # <<>>)

FallbackWords ==
  Words(Without(firstUserMessage(handlerArgs.body.messages.v), SentencePunctuation))

\* C29: when the cleaned title is empty or longer than 60 characters, the
\* endpoint returns the first five words of the first user message, sentence
\* punctuation removed, or 'New Chat' when there is no word; the returned
\* title is never empty and never whitespace only.
C29_Fallback ==
  ModelAnswered =>
    /\ (Cleaned = <<>> \/ length(Cleaned) > MAX_TITLE_LENGTH) =>
         handlerResult.title.v =
           IF FallbackWords = <<>> THEN NewChat ELSE join(slice(FallbackWords, FALLBACK_WORDS))
    /\ trim(handlerResult.title.v) # <<>>

\* something threw while the title was generated: the body was no JSON, a
\* message had no content, the model call failed, or its answer had no text
TitleGenerationThrew ==
  \/ handlerArgs.body = Throws
  \/ /\ handlerArgs.body # Throws
     /\ handlerArgs.body.messages.k = "list"
     /\ Len(handlerArgs.body.messages.v) > 0
     /\ \/ \E i \in 1..Len(handlerArgs.body.messages.v) :
             handlerArgs.body.messages.v[i].content = Undefined
        \/ /\ Len(effects) = 1
           /\ \/ effects[1].answer = Throws
              \/ effects[1].answer.k = "ok" /\ effects[1].answer.content = Undefined

\* C30: when the model call or any other step of title generation throws,
\* the endpoint answers with status 200, title 'New Chat' and the error's
\* message; such a failure is never answered with a failure status.
C30_ErrorsAbsorbed ==
  (pc = "handlerReturned" /\ TitleGenerationThrew) =>
    /\ handlerResult.status = 200
    /\ handlerResult.title = Str(NewChat)
    /\ handlerResult.error.k = "str"
    /\ handlerResult.error.v # <<>>

\* the model call failed and the endpoint answered 'New Chat'
C30_Witness ==
  /\ pc = "handlerReturned"
  /\ Len(effects) = 1
  /\ effects[1].op = "ollama.chat"
  /\ effects[1].answer = Throws
  /\ handlerResult.status = 200
  /\ handlerResult.title = Str(NewChat)

\* ---------------------------------------------------------------------------
\* The entry of the chat endpoint (route.ts 96-117 and 203-216, part_003
\* 104-125 and 244-257): the body is parsed and tested, the stream is
\* constructed, and its start callback runs up to the first model call.
\* ---------------------------------------------------------------------------

\* the request bodies followed: no JSON, the JSON null, and objects with
\* and without their fields
ChatBodies ==
  {Throws, Null}
    \cup { [k |-> "object", model |-> m, messages |-> ms, enableTools |-> e] :
             m \in {Undefined, Str(<<>>), Str(<<"llama3">>)},
             ms \in {Undefined, Null, [k |-> "object"], List(<<>>),
                     List(<<"user: hi">>)},
             e \in {Undefined, Bool(TRUE), Bool(FALSE)} }

ChatRequests ==
  {[revision |-> rev, body |-> body] : rev \in {"route", "final"}, body \in ChatBodies}

\* new Response(..., {status}) with the state of its body stream
ChatResponse(status, stream) == [status |-> status, stream |-> stream]

\* the outer catch (route.ts 209-216)
EntryFailure == ChatResponse(500, "none")

\* const { enableTools = true } = ...: the default replaces undefined only
EnableToolsOf(body) ==
  IF body.enableTools = Undefined THEN TRUE ELSE ~Falsy(body.enableTools)

\* POST up to the return of the Response; the start callback of the stream
\* runs inside the constructor, up to its first await
chatPOST ==
  /\ pc = "chatCalled"
  /\ IF handlerArgs.body = Throws \/ handlerArgs.body = Null
     THEN Return(EntryFailure, effects)
     ELSE IF Falsy(handlerArgs.body.model) \/ Falsy(handlerArgs.body.messages)
     THEN Return(ChatResponse(400, "none"), effects)
     ELSE IF handlerArgs.body.messages.k # "list"
     THEN Return(ChatResponse(200, "errored"), effects)
     ELSE Return(ChatResponse(200, "open"),
                 Append(effects,
                        Call("ollama.chat",
                             IF EnableToolsOf(handlerArgs.body)
                             THEN <<"system">> \o handlerArgs.body.messages.v
                             ELSE handlerArgs.body.messages.v,
                             handlerArgs.body.model)))
  /\ UNCHANGED <<chat, handlerArgs>>

EntryInit ==
  /\ ChatIdle
  /\ pc = "chatCalled"
  /\ handlerArgs \in ChatRequests
  /\ effects = <<>>
  /\ handlerResult = <<>>

EntryNext == chatPOST

EntrySpec == EntryInit /\ [][EntryNext]_vars

\* the body cannot be parsed, or it names no model or no messages
MalformedRequest ==
  \/ handlerArgs.body = Throws
  \/ handlerArgs.body = Null
  \/ /\ handlerArgs.body # Throws
     /\ handlerArgs.body # Null
     /\ \/ handlerArgs.body.model \in {Undefined, Str(<<>>)}
        \/ handlerArgs.body.messages \in {Undefined, Null}

\* C31: a chat request whose body cannot be parsed, or that names no model
\* or no messages, is answered with a 4xx status, with no stream created
\* and no model call made; it never gets a 5xx status or a started stream.
C31_MalformedRejected ==
  (pc = "handlerReturned" /\ MalformedRequest) =>
    /\ handlerResult.status \in 400..499
    /\ handlerResult.stream = "none"
    /\ effects = <<>>

\* -------------------------------------------------------------------------
\* The client cancels the response stream. new ReadableStream({start}) has
\* no cancel callback and hands no abort signal to ollama.chat or
\* executeTool: the start callback runs on, and meets the cancel only when
\* controller.enqueue or controller.close throws on the stream that is no
\* longer readable; controller.error in the catch block then changes nothing
\* -------------------------------------------------------------------------
Cancelled == controller = "cancelled"

\* the reader's cancel(), at any await of the start callback
cancel ==
  /\ pc \in {"awaitChat", "streaming", "awaitTool"}
  /\ controller = "open"
  /\ controller' = "cancelled"
  /\ trace' = Append(trace, Ev("cancel", iterations, 0))
  /\ UNCHANGED <<request, handler, segments, pc, workingMessages, iterations, fullContent,
                 fullThinking, thinkingSent, toolCalls, toolIdx, out, nChunks, modelCalls,
                 toolOutputs, varied, roundVaried, history>>

\* an exception reaches the catch block while the stream is cancelled
ThrowCancelled ==
  /\ pc' = "done"
  /\ trace' = Append(trace, Ev("error", iterations, 0))
  /\ UNCHANGED <<request, handler, segments, controller, workingMessages, iterations, toolIdx,
                 out, modelCalls, varied, roundVaried, roundStart>>

\* await ollama.chat rejects, or the response iterator throws
RuntimeThrowsCancelled ==
  /\ Cancelled
  /\ pc \in {"awaitChat", "streaming"}
  /\ ThrowCancelled
  /\ UNCHANGED <<fullContent, fullThinking, thinkingSent, toolCalls, nChunks, received,
                 toolOutputs>>

\* body of for await on a cancelled stream: a chunk that writes nothing is
\* taken in as before, the first enqueue throws
StreamChunkCancelled(c) ==
  /\ Cancelled
  /\ IF ChunkWrites(c.content,
                    revision = "final" /\ c.content # <<>> /\ ~thinkingSent
                      /\ (IF revision = "final" THEN fullThinking \o c.thinking
                          ELSE fullThinking) # <<>>,
                    fullThinking) = <<>>
     THEN StreamChunk(c)
     ELSE /\ pc = "streaming"
          /\ nChunks < MaxChunks
          /\ fullThinking' = IF revision = "final" THEN fullThinking \o c.thinking
                             ELSE fullThinking
          /\ nChunks' = nChunks + 1
          /\ received' = Append(received, c)
          /\ ThrowCancelled
          /\ UNCHANGED <<fullContent, thinkingSent, toolCalls, toolOutputs>>

\* the code after the for await on a cancelled stream: the thinking block,
\* the separator or controller.close() throws
StreamEndCancelled ==
  /\ Cancelled
  /\ pc = "streaming"
  /\ toolCalls' = IF revision = "final" /\ fullThinking # <<>> /\ ~thinkingSent
                  THEN toolCalls
                  ELSE DetermineToolCalls(toolCalls, fullContent)
  /\ ThrowCancelled
  /\ UNCHANGED <<fullContent, fullThinking, thinkingSent, nChunks, received, toolOutputs>>

\* await executeTool settles on a cancelled stream: the enqueue of the
\* tool marker throws
ToolSettlesCancelled(h) ==
  /\ Cancelled
  /\ pc = "awaitTool"
  /\ (toolCalls[toolIdx].name \notin toolHandlers) => h = "ok"
  /\ toolOutputs' = Append(toolOutputs,
                           [name |-> toolCalls[toolIdx].name, h |-> h,
                            threw |-> executeTool(toolCalls[toolIdx].name, h).threw,
                            value |-> executeTool(toolCalls[toolIdx].name, h).value])
  /\ ThrowCancelled
  /\ UNCHANGED <<fullContent, fullThinking, thinkingSent, toolCalls, nChunks, received>>

CancelNext ==
  \/ ~Cancelled /\ Next
  \/ cancel
  \/ Cancelled /\ ChatResolves
  \/ RuntimeThrowsCancelled
  \/ \E c \in Chunks : StreamChunkCancelled(c)
  \/ StreamEndCancelled
  \/ \E h \in HandlerBehaviours : ToolSettlesCancelled(h)

CancelSpec == Init /\ [][CancelNext]_vars

Executions(tr) == SelectSeq(tr, LAMBDA e : e.ev = "execute")

\* C32: once the client has cancelled the response stream, no step of the
\* loop takes a further chunk from the model stream, issues a further
\* ollama.chat call or invokes executeTool
C32_StopsOnCancel ==
  [][Cancelled => /\ nChunks' <= nChunks
                  /\ modelCalls' = modelCalls
                  /\ Executions(trace') = Executions(trace)]_vars

\* -------------------------------------------------------------------------
\* Two requests in one process. Every variable of the loop is declared
\* inside POST or inside the start callback of its ReadableStream, so each
\* request has its own; the module-level toolHandlers map is written at
\* module load only. The event loop runs one continuation at a time: the
\* other request waits at an await, and either may run next
\* -------------------------------------------------------------------------
\* the variables of the request that is running, as its closure holds them
Locals ==
  [enableTools |-> enableTools, messages |-> messages,
   workingMessages |-> workingMessages, iterations |-> iterations,
   fullContent |-> fullContent, fullThinking |-> fullThinking,
   thinkingSent |-> thinkingSent, toolCalls |-> toolCalls, toolIdx |-> toolIdx,
   pc |-> pc, controller |-> controller, out |-> out, nChunks |-> nChunks,
   modelCalls |-> modelCalls, trace |-> trace, toolOutputs |-> toolOutputs,
   received |-> received, roundStart |-> roundStart, varied |-> varied,
   roundVaried |-> roundVaried]

\* toolCalls declared at module level: one array for all requests
Resumed_sharedToolCalls(closure) == [closure EXCEPT !.toolCalls = toolCalls]

\* what a continuation finds when it runs again: the variables of its own
\* closure, as it left them
Resumed(closure) == closure

\* the continuation of the other request runs next
Switch ==
  /\ peer # NoPeer
  /\ peer' = Locals
  /\ enableTools' = Resumed(peer).enableTools
  /\ messages' = Resumed(peer).messages
  /\ workingMessages' = Resumed(peer).workingMessages
  /\ iterations' = Resumed(peer).iterations
  /\ fullContent' = Resumed(peer).fullContent
  /\ fullThinking' = Resumed(peer).fullThinking
  /\ thinkingSent' = Resumed(peer).thinkingSent
  /\ toolCalls' = Resumed(peer).toolCalls
  /\ toolIdx' = Resumed(peer).toolIdx
  /\ pc' = Resumed(peer).pc
  /\ controller' = Resumed(peer).controller
  /\ out' = Resumed(peer).out
  /\ nChunks' = Resumed(peer).nChunks
  /\ modelCalls' = Resumed(peer).modelCalls
  /\ trace' = Resumed(peer).trace
  /\ toolOutputs' = Resumed(peer).toolOutputs
  /\ received' = Resumed(peer).received
  /\ roundStart' = Resumed(peer).roundStart
  /\ varied' = Resumed(peer).varied
  /\ roundVaried' = Resumed(peer).roundVaried
  /\ UNCHANGED <<revision, handler, segments>>

\* message histories the second caller may post
PeerMessages == { << Message("user", <<W("other")>>), Message("user", <<W("again")>>) >> }

\* the second request as POST receives it
Arrived(e, ms, v) ==
  [enableTools |-> e, messages |-> ms, workingMessages |-> <<>>, iterations |-> 0,
   fullContent |-> <<>>, fullThinking |-> <<>>, thinkingSent |-> FALSE,
   toolCalls |-> <<>>, toolIdx |-> 0, pc |-> "start", controller |-> "open",
   out |-> <<>>, nChunks |-> 0, modelCalls |-> <<>>, trace |-> <<>>,
   toolOutputs |-> <<>>, received |-> <<>>, roundStart |-> [out |-> 0, wm |-> 0],
   varied |-> v, roundVaried |-> FALSE]

\* both requests on the default script in either revision; in the revision
\* with thinking, one round of the first request may leave it
ConcurrentInit ==
  /\ messages \in CallerMessages
  /\ workingMessages = <<>>
  /\ iterations = 0
  /\ fullContent = <<>>
  /\ fullThinking = <<>>
  /\ thinkingSent = FALSE
  /\ toolCalls = <<>>
  /\ toolIdx = 0
  /\ pc = "start"
  /\ controller = "open"
  /\ out = <<>>
  /\ nChunks = 0
  /\ modelCalls = <<>>
  /\ trace = <<>>
  /\ toolOutputs = <<>>
  /\ received = <<>>
  /\ roundStart = [out |-> 0, wm |-> 0]
  /\ segments = <<>>
  /\ NoHandler
  /\ roundVaried = FALSE
  /\ \/ /\ revision \in {"route", "final"}
        /\ enableTools \in BOOLEAN
        /\ varied = MaxVaried
        /\ peer \in {Arrived(e, ms, MaxVaried) : e \in BOOLEAN, ms \in PeerMessages}
     \/ /\ revision = "final"
        /\ enableTools \in BOOLEAN
        /\ varied = 0
        /\ peer \in {Arrived(e, ms, MaxVaried) : e \in BOOLEAN, ms \in PeerMessages}

\* what the runtime streams and how the tools behave in the two-request runs
ConcurrentChunks ==
  { DefaultChunk,
    Chunk(<<W("hi")>>, <<>>, FALSE, <<>>),
    Chunk(<<W("so")>>, <<W("aha")>>, FALSE, <<>>) }

ConcurrentBehaviours == {"ok", "fail"}

ConcurrentNext ==
  \/ Start
  \/ ChatResolves
  \/ ChatRejects
  \/ StreamThrows
  \/ \E c \in ConcurrentChunks : StreamChunk(c)
  \/ StreamEnd
  \/ \E h \in ConcurrentBehaviours : ToolSettles(h)
  \/ Switch

ConcurrentSpec == ConcurrentInit /\ [][ConcurrentNext]_vars

\* the transcript of request r holds r's own messages where its working
\* copy put them, and no user message of another request
OwnTranscript(r) ==
  /\ r.pc # "start"
       => SubSeq(r.workingMessages, (IF r.enableTools THEN 1 ELSE 0) + 1,
                 (IF r.enableTools THEN 1 ELSE 0) + Len(r.messages)) = r.messages
  /\ \A i \in DOMAIN r.workingMessages :
       r.workingMessages[i].role = "user"
         => \/ r.workingMessages[i] = ForceMessage
            \/ \E j \in DOMAIN r.messages : r.messages[j] = r.workingMessages[i]

\* the executeTool calls of request r that settled without throwing
SettledOutputs(r) == SelectSeq(r.toolOutputs, LAMBDA o : ~o.threw)

\* the tool messages of r's transcript and the tool markers of r's output
\* are the results of r's own executeTool calls, in order
OwnToolResults(r) ==
  /\ SelectSeq(r.workingMessages, LAMBDA m : m.role = "tool")
       = [i \in DOMAIN SettledOutputs(r)
            |-> Message("tool", ToolResultText(SettledOutputs(r)[i].value))]
  /\ Len(SelectSeq(r.out, IsToolMarker)) = Len(SettledOutputs(r))
  /\ \A i \in DOMAIN r.out :
       IsToolMarker(r.out[i])
         => \E j \in DOMAIN SettledOutputs(r) :
              /\ r.out[i][2] = X(SettledOutputs(r)[j].name)
              /\ IsPrefix(ToolResultText(SettledOutputs(r)[j].value) \o <<X("<!--TOOL_END-->")>>,
                          SubSeq(r.out[i], Len(r.out[i]) - Len(ToolResultText(SettledOutputs(r)[j].value)) - 1,
                                 Len(r.out[i])))

OwnOnly ==
  /\ OwnTranscript(Locals)
  /\ OwnToolResults(Locals)
  /\ C18_InOrder
  /\ OwnTranscript(peer)
  /\ OwnToolResults(peer)

\* a step of the running request as it would be alone, with the suspended
\* request untouched, or a change of the running request with the variables
\* of both untouched
AloneStep ==
  \/ peer' = Locals /\ Locals' = peer /\ revision' = revision
  \/ Next /\ peer' = peer

MaxRequests == 3

TITLE_LENGTH == 30

Users == {"alice", "bob"}

\* ids handed out by prisma.chat.create, in order; "c9" is never one
ChatIds == <<"c1", "c2", "c3", "c4">>

ChatRow(id, userId, title, updatedAt) ==
  [id |-> id, userId |-> userId, title |-> title, pinned |-> FALSE, updatedAt |-> updatedAt]

MessageRow(chatId, content, role) == [chatId |-> chatId, content |-> content, role |-> role]

\* a store with one chat of each user
StoredChats ==
  [chats |-> {ChatRow("c1", "alice", <<"a">>, 0), ChatRow("c2", "bob", <<"b">>, 0)},
   messages |-> <<MessageRow("c1", <<"a">>, <<"user">>), MessageRow("c2", <<"b">>, <<"user">>)>>,
   created |-> 2]

\* the token cookie: absent, not signed with JWT_SECRET, or a user's
Tokens == {Undefined, Str(<<"forged">>), Str(<<"alice">>), Str(<<"bob">>)}

\* jwtVerify(token, JWT_SECRET) resolves
Verifies(token) == token.k = "str" /\ Len(token.v) = 1 /\ token.v[1] \in Users

\* payload.userId
userIdOf(token) == token.v[1]

LongContent == [i \in 1..31 |-> "x"]

\* the last message of a posted array
PostedMessages ==
  { Null,
    [content |-> Str(<<"h", "i">>), role |-> Str(<<"user">>)],
    [content |-> Str(LongContent), role |-> Str(<<"user">>)],
    [content |-> Str(<<>>), role |-> Str(<<"user">>)],
    [content |-> Undefined, role |-> Str(<<"user">>)],
    [content |-> Str(<<"h", "i">>), role |-> Undefined] }

PostBodies ==
  {Throws}
  \cup { [messages |-> ms, chatId |-> id] :
           ms \in {Undefined, [k |-> "object"], List(<<>>)} \cup { List(<<m>>) : m \in PostedMessages },
           id \in {Undefined, Str(<<"c1">>), Str(<<"c2">>), Str(<<"c9">>)} }

PatchBodies ==
  { Throws, [k |-> "object"], [title |-> Str(<<"n", "e", "w">>)], [pinned |-> Bool(TRUE)],
    [title |-> Str(<<"n", "e", "w">>), pinned |-> Bool(TRUE)], [title |-> Null] }

StoreRequests ==
  { [method |-> "POST", token |-> t, body |-> b] : t \in Tokens, b \in PostBodies }
  \cup { [method |-> "PATCH", token |-> t, id |-> id, body |-> b] :
           t \in Tokens, id \in {"c1", "c2", "c9"}, b \in PatchBodies }
  \cup { [method |-> "DELETE", token |-> t, id |-> id] : t \in Tokens, id \in {"c1", "c2", "c9"} }

store == handlerArgs.store

Exists(st, id) == \E c \in st.chats : c.id = id

Row(st, id) == CHOOSE c \in st.chats : c.id = id

\* prisma.chat.findFirst({where: {id, userId}})
findFirst(st, id, userId) == \E c \in st.chats : c.id = id /\ c.userId = userId

\* prisma.chat.update({where: {id}, data})
update(st, row) == [st EXCEPT !.chats = (@ \ {Row(st, row.id)}) \cup {row}]

\* prisma.message.deleteMany({where: {chatId}}), prisma.chat.delete({where: {id}})
delete(st, id) ==
  [st EXCEPT !.chats = @ \ {Row(st, id)},
             !.messages = SelectSeq(@, LAMBDA m : m.chatId # id)]

\* prisma.chat.create({data: {userId, title}})
create(st, userId, title, now) ==
  [st EXCEPT !.chats = @ \cup {ChatRow(ChatIds[st.created + 1], userId, title, now)},
             !.created = @ + 1]

\* content.length > 30 ? content.substring(0, 30) + '...' : content
title(content) ==
  IF length(content) > TITLE_LENGTH THEN SubSeq(content, 1, TITLE_LENGTH) \o <<"...">>
  ELSE content

Status(status) == [status |-> status]

\* a request has been answered: the store it leaves, its writes, its response
Answer(req, st, writes, status) ==
  /\ handlerArgs' = [request |-> req, store |-> st, clock |-> handlerArgs.clock + 1]
  /\ effects' = writes
  /\ handlerResult' = Status(status)
  /\ UNCHANGED <<chat, pc>>

Serving(req, method) ==
  /\ pc = "storeServing"
  /\ handlerArgs.clock < MaxRequests
  /\ req.method = method

\* PATCH /api/chats/[id]
chatsPATCH(req) ==
  /\ Serving(req, "PATCH")
  /\ IF Falsy(req.token) THEN Answer(req, store, <<>>, 401)
     ELSE IF ~Verifies(req.token) \/ req.body = Throws THEN Answer(req, store, <<>>, 500)
     ELSE IF ~findFirst(store, req.id, userIdOf(req.token)) THEN Answer(req, store, <<>>, 404)
     ELSE Answer(req,
                 update(store,
                        [Row(store, req.id) EXCEPT
                           !.title = IF "title" \in DOMAIN req.body /\ req.body.title.k = "str"
                                     THEN req.body.title.v ELSE @,
                           !.pinned = IF "pinned" \in DOMAIN req.body /\ req.body.pinned.k = "bool"
                                      THEN req.body.pinned.v ELSE @]),
                 <<"chat.update">>, 200)

\* DELETE /api/chats/[id]
chatsDELETE(req) ==
  /\ Serving(req, "DELETE")
  /\ IF Falsy(req.token) THEN Answer(req, store, <<>>, 401)
     ELSE IF ~Verifies(req.token) THEN Answer(req, store, <<>>, 500)
     ELSE IF ~findFirst(store, req.id, userIdOf(req.token)) THEN Answer(req, store, <<>>, 404)
     ELSE Answer(req, delete(store, req.id), <<"message.deleteMany", "chat.delete">>, 200)

\* the store once POST has got past the creation of a new chat
Created(req) ==
  IF Falsy(req.body.chatId)
  THEN create(store, userIdOf(req.token), title(Last(req.body.messages.v).content.v),
              handlerArgs.clock)
  ELSE store

currentChatId(req) ==
  IF Falsy(req.body.chatId) THEN ChatIds[store.created + 1] ELSE req.body.chatId.v[1]

\* POST /api/chats; linked is whether the schema ties a message to an
\* existing chat
chatsPOST(req, linked) ==
  /\ Serving(req, "POST")
  /\ (req.body # Throws /\ Falsy(req.body.chatId)) => store.created < Len(ChatIds)
  /\ IF Falsy(req.token) THEN Answer(req, store, <<>>, 401)
     ELSE IF ~Verifies(req.token) \/ req.body = Throws THEN Answer(req, store, <<>>, 500)
     ELSE IF Falsy(req.body.messages) \/ req.body.messages.k # "list"
             \/ Len(req.body.messages.v) = 0
     THEN Answer(req, store, <<>>, 400)
     ELSE IF Last(req.body.messages.v) = Null THEN Answer(req, store, <<>>, 500)
     ELSE IF Falsy(req.body.chatId) /\ Last(req.body.messages.v).content.k # "str"
     THEN Answer(req, store, <<>>, 500)
     ELSE IF Falsy(Last(req.body.messages.v).content) \/ Falsy(Last(req.body.messages.v).role)
     THEN Answer(req, Created(req),
                 IF Falsy(req.body.chatId) THEN <<"chat.create">> ELSE <<>>, 400)
     ELSE IF ~Exists(Created(req), currentChatId(req)) /\ linked
     THEN Answer(req, store, <<>>, 500)
     ELSE IF ~Exists(Created(req), currentChatId(req))
     THEN Answer(req,
                 [store EXCEPT !.messages =
                    Append(@, MessageRow(currentChatId(req), Last(req.body.messages.v).content.v,
                                         Last(req.body.messages.v).role.v))],
                 <<"message.create">>, 500)
     ELSE Answer(req,
                 update([Created(req) EXCEPT !.messages =
                           Append(@, MessageRow(currentChatId(req),
                                                Last(req.body.messages.v).content.v,
                                                Last(req.body.messages.v).role.v))],
                        [Row(Created(req), currentChatId(req)) EXCEPT
                           !.updatedAt = handlerArgs.clock]),
                 (IF Falsy(req.body.chatId) THEN <<"chat.create">> ELSE <<>>)
                   \o <<"message.create", "chat.update">>, 200)

StoreInit ==
  /\ ChatIdle
  /\ pc = "storeServing"
  /\ handlerArgs = [request |-> Null, store |-> StoredChats, clock |-> 1]
  /\ effects = <<>>
  /\ handlerResult = <<>>

StoreNext ==
  \/ \E req \in StoreRequests : chatsPATCH(req)
  \/ \E req \in StoreRequests : chatsDELETE(req)
  \/ \E req \in StoreRequests, linked \in BOOLEAN : chatsPOST(req, linked)

StoreSpec == StoreInit /\ [][StoreNext]_vars

\* the user a request is made as
Requester == userIdOf(handlerArgs'.request.token)

\* the rows of chat id: the chat and its messages
Conversation(st, id) ==
  [chat |-> {c \in st.chats : c.id = id},
   messages |-> SelectSeq(st.messages, LAMBDA m : m.chatId = id)]

\* C34: a request changes a stored conversation (its title, pinned flag,
\* update time, existence or messages) only when it is made as the user who
\* owns the chat.
C34_OwnerOnly ==
  [][\A c \in store.chats :
       Conversation(store', c.id) # Conversation(store, c.id)
         => /\ Verifies(handlerArgs'.request.token)
            /\ Requester = c.userId]_vars

\* C38: a POST that is answered with status 400 leaves the store as it
\* was: no chat and no message has been created.
C38_RejectedUnchanged ==
  [][(handlerArgs'.request.method = "POST" /\ handlerResult'.status = 400)
       => store' = store]_vars

\* path is dir itself or lies below it: after dir comes a separator
Inside(path, dir) ==
  /\ startsWith(path, dir)
  /\ \/ Len(path) = Len(dir)
     \/ dir[Len(dir)] = "/"
     \/ path[Len(dir) + 1] = "/"

\* C35: a read_file or write_file call that has made a file-system call has
\* a path that resolves to an allowed directory or to a descendant of one; a
\* path in a sibling directory whose name only starts like an allowed
\* directory's gets no file-system call.
C35_InsideAllowed ==
  (IsFileCall /\ effects # <<>>)
    => \E i \in 1..Len(ALLOWED_DIRECTORIES(handlerArgs.env)) :
         Inside(resolve(handlerArgs.path.v), ALLOWED_DIRECTORIES(handlerArgs.env)[i])

\* the step on which the for await of a round is left without an exception
StreamEnds ==
  /\ pc = "streaming"
  /\ pc' \in {"awaitTool", "done"}
  /\ controller' # "errored"

\* C36: when the stream of a round ends, every native tool call that a chunk
\* of the stream carried is among the calls the round goes on to execute.
C36_NativeCallsKept ==
  [][StreamEnds =>
       \A i \in DOMAIN received : \A j \in DOMAIN received[i].tool_calls :
         \E k \in DOMAIN toolCalls' : toolCalls'[k] = received[i].tool_calls[j]]_vars

\* -------------------------------------------------------------------------
\* parseTextToolCalls on replies that hold one invocation, written in one of
\* the three forms from a tool name and an arguments object, with or
\* without plain text around it; handlerArgs keeps what the reply was
\* written from
\* -------------------------------------------------------------------------
ReplyArguments ==
  { JObj(<<>>),
    CalcArgs,
    JObj(<< <<"location", JStr("Paris")>>, <<"options", JObj(<< <<"unit", JStr("c")>> >>)>> >>) }

ReplyForms == {"args", "tag", "tool", "function"}

\* the text of the invocation
Invocation(form, name, arguments) ==
  IF form = "args" THEN <<W(name), ARGS_TAG>> \o JSONstringify(arguments)
  ELSE IF form = "tag"
  THEN <<TOOL_CALL_OPEN>>
       \o JSONstringify(JObj(<< <<"name", JStr(name)>>, <<"arguments", arguments>> >>))
       \o <<TOOL_CALL_CLOSE>>
  ELSE JSONstringify(JObj(<< <<form, JStr(name)>>, <<"arguments", arguments>> >>))

ReplyInit ==
  /\ pc = "parseCalled"
  /\ handlerArgs \in { [form |-> f, name |-> n, arguments |-> a, before |-> b, after |-> c] :
                         f \in ReplyForms, n \in {"calculator", "get_weather"},
                         a \in ReplyArguments,
                         b \in {<<>>, <<W("Sure"), SPACE>>},
                         c \in {<<>>, <<SPACE, W("done")>>} }
  /\ fullContent = handlerArgs.before
                     \o Invocation(handlerArgs.form, handlerArgs.name, handlerArgs.arguments)
                     \o handlerArgs.after
  /\ effects = <<>>
  /\ handlerResult = <<>>
  /\ peer = NoPeer
  /\ toolCalls = <<>>
  /\ revision = "route"
  /\ enableTools = TRUE
  /\ messages = <<>>
  /\ workingMessages = <<>>
  /\ iterations = 0
  /\ fullThinking = <<>>
  /\ thinkingSent = FALSE
  /\ toolIdx = 0
  /\ controller = "open"
  /\ out = <<>>
  /\ nChunks = 0
  /\ modelCalls = <<>>
  /\ trace = <<>>
  /\ toolOutputs = <<>>
  /\ received = <<>>
  /\ roundStart = [out |-> 0, wm |-> 0]
  /\ segments = <<>>
  /\ varied = 0
  /\ roundVaried = FALSE

ReplySpec == ReplyInit /\ [][ParseNext]_vars

\* C37: a reply that holds one invocation of a registered tool, in any of
\* the three forms and with an empty, a non-empty or a nested arguments
\* object, yields exactly that one invocation with those arguments.
C37_OneInvocation ==
  pc = "parseReturned" => toolCalls = <<ToolCall(handlerArgs.name, handlerArgs.arguments)>>

====
